--------------------------- MODULE MCSchemaCache ---------------------------
(* Instance of SchemaCache. A dump is one of three lists of pieces: tables,   *)
(* literals, function bodies and comments that hold the parser's own markers, *)
(* and CREATE TABLE statements that SQLite executes as they stand, once they   *)
(* are rewritten for the dialect, or never. The third list, which shows no     *)
(* engine, is uploaded twice: as what it is, and as another dialect.           *)
EXTENDS SchemaCache

Symmetry == Permutations(Bases) \cup Permutations(Questions)

MCTables == {"users", "orders", "alembic_version"}

Table(t, clauses) == [table |-> t, clauses |-> clauses]
MCCreated ==
    [w \in {"users", "public.users", "orders", "orders()", "orders key", "versions"} |->
        CASE w = "users"        -> Table("users", {"serial"})
          [] w = "public.users" -> Table("users", {"public."})
          [] w = "orders"       -> Table("orders", {"auto_increment", "engine=innodb", "key"})
          [] w = "orders()"     -> Table("orders", {"now()"})
          [] w = "orders key"   -> Table("orders", {"key"})
          [] w = "versions"     -> Table("alembic_version", {})]

Literal(from, to, quote, escaped) ==
    [from |-> from, to |-> to, quote |-> quote, escaped |-> escaped]
Alone(text) == [text |-> text, literals |-> {}]

Setting   == [text |-> <<"set", "'", "users", "'", ";">>, literals |-> {Literal(2, 4, "'", {})}]
Insertion == [text |-> <<"insert", "'", "\\", "'", ";", "users", "'", ";">>,
              literals |-> {Literal(2, 7, "'", {4})}]
Function  == [text |-> <<"function", "$a$", "'", ";", "$$", ";", "users", "$a$", ";">>,
              literals |-> {Literal(2, 8, "$a$", {})}]
Orders    == [text |-> <<"orders", "'", ";", "\"", "'", "\"", ";", "'", "\"", ";">>,
              literals |-> {Literal(2, 5, "'", {}), Literal(6, 9, "\"", {})}]
Create(w) == Alone(<<w, ";">>)
Line      == Alone(<<"--", "pg_dump", ";", "orders", "nl">>)
Block     == Alone(<<"/*", "'", ";", "users", "--", "*/">>)
Nothing   == Alone(<<";">>)

Lists == <<<<Block, Nothing, Setting, Insertion, Create("users"), Function, Orders>>,
           <<Line, Function, Create("versions"), Create("public.users"), Create("orders()"),
             Insertion, Block, Create("users")>>,
           <<Insertion, Setting, Create("orders key"), Function>>>>

MCDumps == 1..4
ListOf(d) == IF d = 4 THEN Lists[3] ELSE Lists[d]
MCPieces == [d \in MCDumps |-> [i \in DOMAIN ListOf(d) |-> ListOf(d)[i].text]]
MCLiterals == [d \in MCDumps |-> [i \in DOMAIN ListOf(d) |-> ListOf(d)[i].literals]]
MCTextOf == [d \in MCDumps |-> FlattenSeq(MCPieces[d])]
MCChosenFor == [d \in MCDumps |-> IF d = 3 THEN "mysql" ELSE "postgresql"]
MCTablesOf == <<{"users", "orders"}, {"users"}, {"orders"}, {}>>

\* What the proof that answers are about their dump assumes of dumps.
ASSUME DumpsInPieces ==
    \A d \in MCDumps :
        LET pieces == MCPieces[d]
            rest == [i \in 0..Len(pieces) |->
                        FlattenSeq(SubSeq(pieces, i + 1, Len(pieces)))]
        IN  /\ MadeOf(TextOf[d], pieces, MCLiterals[d], rest)
            /\ TablesOf[d] = WrittenTables(pieces, EngineOf(d))
=============================================================================
