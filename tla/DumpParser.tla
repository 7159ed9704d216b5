----------------------------- MODULE DumpParser -----------------------------
(***************************************************************************)
(* What an uploaded text dump becomes: DumpParser strips the comments and  *)
(* splits the text into statements, SandboxManager rewrites each of them   *)
(* for SQLite and executes it in an empty database, skipping those that    *)
(* fail, and SchemaScanner lists the tables that are there.                *)
(*                                                                         *)
(* A text is a sequence of tokens: the characters and markers that matter  *)
(* to the parser, and words. A word stands for what precedes the first     *)
(* literal of a statement; some words are CREATE TABLE statements, with    *)
(* the clauses of their dialect. The token that opens a block comment      *)
(* stands for one that is closed further on: without its end it is like    *)
(* any other word to the regular expression. MySQL's # is written --.      *)
(***************************************************************************)
EXTENDS Integers, Sequences, FiniteSets, SequencesExt

CONSTANT Created    \* for the words that are CREATE TABLE statements: table and clauses

DollarTags == {"$$", "$a$"}
IgnoredWords == {"set", "lock", "unlock", "use"}  \* _is_ignorable_directive
ExcludedTables == {"alembic_version", "spatial_ref_sys"}

ASSUME CreatedAssumption == DOMAIN Created \cap (IgnoredWords \cup {"/*", "--", ";"}) = {}

\* A loop over a text: its states from the start on, one turn for each token.
States(turn, start, text) ==
    LET state[n \in 0..Len(text)] ==
            IF n = 0 THEN start ELSE turn[state[n - 1]][text[n]]
    IN  state

-----------------------------------------------------------------------------
(* Comments *)

\* What is left so far, and whether a comment is open.  Quotes are not looked at.
Stripping == [out : Seq(STRING), inside : BOOLEAN]
Outside == [out |-> <<>>, inside |-> FALSE]

Stripped(opens, closes, blanks) ==
    [s \in Stripping |-> [c \in STRING |->
        IF s.inside THEN [s EXCEPT !.inside = c # closes]
        ELSE IF c = opens THEN [s EXCEPT !.inside = TRUE]
        ELSE IF c \in blanks THEN s
        ELSE [out |-> Append(s.out, c), inside |-> FALSE]]]

BlockComment == Stripped("/*", "*/", {})
LineComment == Stripped("--", "nl", {"nl"})

Strip(turn, text) == States(turn, Outside, text)[Len(text)].out

\* /* ... */ first, then each line from "--" on.
StripComments(text) == Strip(LineComment, Strip(BlockComment, text))

-----------------------------------------------------------------------------
(* Statements *)

\* in_single_quote, in_double_quote and dollar_tag exclude each other: the quote that
\* is open, if one is, and whether the next character is escaped.
Quoting == [quote : {"", "'", "\""} \cup DollarTags, escape : BOOLEAN]
Unquoted == [quote |-> "", escape |-> FALSE]

\* One turn of the loop of _split_sql_statements on character c.  A body in dollars
\* ends at its own tag and sees no escape.
Turn(s, c) ==
    LET toggled == [s EXCEPT !.quote = IF s.quote = "" THEN c ELSE ""]
    IN  IF c \in DollarTags /\ s.quote \in {"", c} THEN toggled
        ELSE IF s.quote \in DollarTags THEN s
        ELSE IF s.escape THEN [s EXCEPT !.escape = FALSE]
        ELSE IF c = "\\" THEN [s EXCEPT !.escape = TRUE]
        ELSE IF c \in {"'", "\""} /\ s.quote \in {"", c} THEN toggled
        ELSE s

Quotes(text) == States([s \in Quoting |-> [c \in STRING |-> Turn(s, c)]], Unquoted, text)

\* _split_sql_statements: the semicolons at which a statement ends.
Ends(text) == {n \in DOMAIN text : text[n] = ";" /\ Quotes(text)[n - 1] = Unquoted}

\* Mutation: the buffer is not emptied after a statement, which all start alike.
FirstWordsUnreset(text) == {text[n] : n \in {1} \cap (DOMAIN text \ Ends(text))}

\* The first words of the statements that are not empty: of the text, and of what
\* follows each end.
FirstWords(text) ==
    {text[n + 1] : n \in {m \in {0} \cup Ends(text) : m + 1 \in DOMAIN text \ Ends(text)}}

-----------------------------------------------------------------------------
(* The sandbox *)

\* detect_engine: the first engine of which the text shows a mark, in a comment, a
\* clause or anywhere else; otherwise the engine chosen in the form.
Marks == <<[engine |-> "postgresql", marks |-> {"pg_dump", "public."}],
           [engine |-> "mysql", marks |-> {"mysqldump", "engine=innodb", "auto_increment"}],
           [engine |-> "sqlite", marks |-> {"sqlite_master", "autoincrement"}],
           [engine |-> "mssql", marks |-> {"identity(1,1)", "nvarchar(", "dbo."}],
           [engine |-> "oracle", marks |-> {"varchar2(", "number(", "sysdate"}]>>

Engines == {Marks[n].engine : n \in DOMAIN Marks}

Shown(text) ==
    LET words == {text[n] : n \in DOMAIN text}
    IN  words \cup UNION {Created[w].clauses : w \in words \cap DOMAIN Created}

Engine(text, chosen) ==
    LET seen == {n \in DOMAIN Marks : Marks[n].marks \cap Shown(text) # {}}
    IN  IF seen = {} THEN chosen ELSE Marks[Min(seen)].engine

\* _adapt_stmt_for_sqlite: the clauses that are rewritten, by dialect.
Rewritten == [postgresql |-> {"serial", "timestamp with time zone"},
              mysql      |-> {"engine=innodb", "auto_increment", "collate", "key",
                              "current_timestamp()"},
              oracle     |-> {"identity", "to_date(", "varchar2(", "number(", "sysdate"},
              mssql      |-> {},
              sqlite     |-> {}]

\* What SQLite reads as it stands: names of types, mostly.  It refuses the others,
\* such as the schema of a name (public., dbo.) or a call as a default (now()).
SQLiteReads == {"serial", "timestamp with time zone", "autoincrement", "identity(1,1)",
                "nvarchar(", "varchar2(", "number(", "sysdate"}

\* _materialize_sqlite, _materialize_sql_engine: a statement that fails is skipped.
Executes(word, engine) == Created[word].clauses \subseteq Rewritten[engine] \cup SQLiteReads

Tabled(words, engine) ==
    {Created[w].table : w \in {v \in words \cap DOMAIN Created : Executes(v, engine)}}

\* parse_statements drops SET, LOCK TABLES, USE...; the others are executed one by
\* one, and SchemaScanner finds the tables that were created.
ScannedTables(text, engine) ==
    Tabled(FirstWords(StripComments(text)) \ IgnoredWords, engine) \ ExcludedTables

-----------------------------------------------------------------------------
(* What a dump looks like, whatever reads it *)

\* A literal of a text: from one quote to the next one that no backslash escapes.
IsLiteral(l, text) ==
    /\ {l.from, l.to} \subseteq DOMAIN text /\ l.from < l.to
    /\ l.quote \in {"'", "\""} \cup DollarTags
    /\ text[l.from] = l.quote /\ text[l.to] = l.quote
    /\ \A n \in (l.from + 1)..(l.to - 1) : text[n] = l.quote => n \in l.escaped
    /\ l.escaped \subseteq (l.from + 1)..(l.to - 1)
    /\ \A n \in (l.from + 1)..l.to :
        n \in l.escaped <=> /\ l.quote \notin DollarTags
                           /\ text[n - 1] = "\\" /\ n - 1 \notin l.escaped

\* A statement, up to its semicolon: quotes, backslashes and other semicolons are in
\* its literals, and it holds no comment, nor the marker of one.
IsStatement(text, literals) ==
    /\ Len(text) > 1 /\ text[Len(text)] = ";"
    /\ \A l \in literals : IsLiteral(l, text)
    /\ \A k, l \in literals : k = l \/ k.to < l.from \/ l.to < k.from
    /\ \A n \in DOMAIN text :
        /\ text[n] \notin {"/*", "--", "nl"}
        /\ \/ text[n] \in {"'", "\"", "\\"} \cup DollarTags
           \/ text[n] = ";" /\ n # Len(text)
           => \E l \in literals : n \in l.from..l.to

\* A comment: it goes on until its end, whatever it holds.
IsComment(text, opens, closes, bars) ==
    /\ Len(text) > 1 /\ text[1] = opens /\ text[Len(text)] = closes
    /\ \A n \in 2..(Len(text) - 1) : text[n] \notin bars

IsPiece(text, literals) ==
    \/ IsStatement(text, literals)
    \/ IsComment(text, "/*", "*/", {"*/"})
    \/ IsComment(text, "--", "nl", {"nl", "/*"})
    \/ text = <<";">>  \* an empty statement

\* The text is the pieces one after the other: rest[i] is what follows piece i.
MadeOf(text, pieces, literals, rest) ==
    /\ rest[0] = text /\ rest[Len(pieces)] = <<>>
    /\ \A i \in DOMAIN pieces :
        /\ rest[i - 1] = pieces[i] \o rest[i]
        /\ IsPiece(pieces[i], literals[i])

\* The tables of those of its statements that SQLite executes.
WrittenTables(pieces, engine) ==
    Tabled({pieces[i][1] : i \in DOMAIN pieces}, engine) \ ExcludedTables
=============================================================================
