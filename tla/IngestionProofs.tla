--------------------------- MODULE IngestionProofs ---------------------------
(***************************************************************************)
(* Proofs about Ingestion, for any documents, scopes and syncs, any cursor *)
(* and any page size.                                                      *)
(***************************************************************************)
EXTENDS Ingestion, OrderingProofs

\* Rows and chunks change together, for the document that is stored.
Whole ==
    /\ store = [d \in Docs |-> store[d]]
    /\ chunk = [d \in Docs |-> chunk[d]]
    /\ DocumentIsWhole

LEMMA StoreKeepsWhole ==
    ASSUME Whole, NEW s \in Syncs, StoreRecord(s)
    PROVE  Whole'
<1> DEFINE r == Head(sync[s].page)
           row == [stamp |-> r.stamp, size |-> r.size,
                   tag |-> IF sync[s].admin THEN "instance" ELSE "untagged"]
<1>1. /\ store' = [store EXCEPT ![r.doc] = row]
      /\ chunk' = [chunk EXCEPT ![r.doc] = Upserted(chunk[r.doc], r)]
  BY DEF StoreRecord
<1>2. row.stamp = r.stamp /\ row.size = r.size
  OBVIOUS
<1> HIDE DEF row
<1>3. store' = [d \in Docs |-> store'[d]] /\ chunk' = [d \in Docs |-> chunk'[d]]
  BY <1>1 DEF Whole
<1>4. ASSUME NEW d \in Docs, NEW i \in Chunks, i < store'[d].size
      PROVE  chunk'[d][i] = store'[d].stamp
  <2>1. CASE d = r.doc
    BY <1>1, <1>2, <1>4, <2>1 DEF Whole, Upserted
  <2>2. CASE d # r.doc
    BY <1>1, <1>4, <2>2 DEF Whole, DocumentIsWhole
  <2> QED BY <2>1, <2>2
<1> QED BY <1>3, <1>4 DEF Whole, DocumentIsWhole

\* The stored version of a document has all its chunks, all cut from that version,
\* whichever syncs overlap, fail, or are lost by a restart, and whatever is edited or
\* deleted at the source meanwhile (VectorStore.upsert_document_with_chunks).
THEOREM DocumentsWhole == Spec => []DocumentIsWhole
<1>1. Init => Whole
  BY IngestionAssumption DEF Init, Whole, DocumentIsWhole, Chunks
<1>2. ASSUME Whole, [Next]_vars PROVE Whole'
  <2>1. CASE UNCHANGED storeVars
    BY <1>2, <2>1 DEF Whole, DocumentIsWhole, storeVars
  <2>2. CASE UNCHANGED vars
    BY <2>1, <2>2 DEF vars, storeVars
  <2>3. CASE \E d \in Docs : EditAtSource(d) \/ DeleteAtSource(d)
    BY <2>1, <2>3 DEF EditAtSource, DeleteAtSource
  <2>4. CASE Restart
    BY <2>1, <2>4 DEF Restart
  <2>5. ASSUME NEW s \in Syncs, StartInstanceSync(s) \/ StartDirectSync(s) PROVE Whole'
    BY <2>1, <2>5 DEF StartInstanceSync, StartDirectSync, Begin
  <2>6. ASSUME NEW s \in Syncs,
               \/ CannotConnect(s) \/ ConnectionRaises(s)
               \/ ScopeFails(s) \/ NextScope(s) \/ FetchPage(s)
        PROVE  Whole'
    BY <2>1, <2>6 DEF CannotConnect, ConnectionRaises, LoseScopes, ScopeFails, NextScope,
                      FetchPage
  <2>7. ASSUME NEW s \in Syncs, ScopeDone(s) \/ NothingLeft(s) \/ Answer(s) PROVE Whole'
    BY <2>1, <2>7 DEF ScopeDone, NothingLeft, Answer
  <2>8. CASE \E s \in Syncs : StoreRecord(s)
    BY <1>2, <2>8, StoreKeepsWhole
  <2> QED BY <1>2, <2>2, <2>3, <2>4, <2>5, <2>6, <2>7, <2>8 DEF Next, Step
<1>3. Whole => DocumentIsWhole
  BY DEF Whole
<1> QED BY <1>1, <1>2, <1>3, PTL DEF Spec

-----------------------------------------------------------------------------
(* What a page holds.                                                      *)

\* The source gives each version its own stamp.
SourceOK ==
    /\ \A d \in Docs : stamp[d] <= clock
    /\ \A d, e \in Docs : d # e /\ stamp[d] > 0 => stamp[d] # stamp[e]

Live == {d \in Docs : stamp[d] > 0}

LEMMA KeysOrder ==
    ASSUME TypeOK, SourceOK, NEW S \in SUBSET Live
    PROVE  IsFiniteSet(S) /\ Orders(ByKey, S)
<1>1. IsFiniteSet(S)
  BY IngestionAssumption, FS_Subset DEF Live
<1>2. \A d \in S : d \in Docs /\ Key(d) \in Nat /\ d \in Nat
  BY IngestionAssumption DEF Key, Live, TypeOK, Stamps
<1>3. \A d, e \in S : d # e => Key(d) # Key(e)
  BY <1>2 DEF Key, Live, SourceOK
<1>4. \A d, e \in S : <<d, e>> \in ByKey <=> Key(d) < Key(e)
  BY <1>2 DEF ByKey
<1>5. Orders(ByKey, S)
  BY <1>2, <1>3, <1>4 DEF Orders
<1> QED BY <1>1, <1>5

\* A query returns each document it selects once, as it is at the source, in the
\* order of the keys.
LEMMA OrderedFacts ==
    ASSUME TypeOK, SourceOK, NEW S \in SUBSET Live
    PROVE  /\ Ordered(S) \in Seq(Items)
           /\ \A i \in DOMAIN Ordered(S) :
                 /\ Ordered(S)[i].doc \in S
                 /\ Ordered(S)[i].stamp = stamp[Ordered(S)[i].doc]
           /\ \A i, j \in DOMAIN Ordered(S) :
                 i < j <=> Key(Ordered(S)[i].doc) < Key(Ordered(S)[j].doc)
           /\ \A d \in S : \E i \in DOMAIN Ordered(S) : Ordered(S)[i].doc = d
<1> DEFINE docs == Sorted(S, ByKey)
           n == Len(docs)
           item(d) == [doc |-> d, stamp |-> stamp[d], size |-> size[d]]
<1>1. /\ docs \in Seq(S)
      /\ ToSet(docs) = S
      /\ \A i, j \in DOMAIN docs : i < j <=> <<docs[i], docs[j]>> \in ByKey
  BY KeysOrder, SortedFacts
<1>2. Ordered(S) = [i \in 1..n |-> item(docs[i])]
  BY DEF Ordered
<1> HIDE DEF docs
<1>3. \A d \in S : item(d) \in Items /\ item(d).doc = d /\ item(d).stamp = stamp[d]
  BY DEF Live, Items, TypeOK, Stamps
<1> HIDE DEF item
<1>4. n \in Nat /\ DOMAIN docs = 1..n /\ \A i \in 1..n : docs[i] \in S
  BY <1>1
<1>5. /\ Ordered(S) \in Seq(Items)
      /\ DOMAIN Ordered(S) = 1..n
      /\ \A i \in 1..n : Ordered(S)[i].doc = docs[i]
      /\ \A i \in 1..n : Ordered(S)[i].stamp = stamp[docs[i]]
  BY <1>2, <1>3, <1>4
<1>6. \A d, e \in S : <<d, e>> \in ByKey <=> Key(d) < Key(e)
  BY DEF ByKey, Live
<1>7. \A d \in S : \E i \in 1..n : docs[i] = d
  BY <1>1, <1>4 DEF ToSet
<1>8. \A i, j \in 1..n : i < j <=> Key(docs[i]) < Key(docs[j])
  BY <1>1, <1>4, <1>6
<1> DEFINE list == Ordered(S)
<1>9. /\ list \in Seq(Items)
      /\ DOMAIN list = 1..n
      /\ \A i \in 1..n : list[i].doc = docs[i] /\ list[i].stamp = stamp[docs[i]]
  BY <1>5
<1> HIDE DEF list
<1>10. \A i \in 1..n : list[i].doc \in S /\ list[i].stamp = stamp[list[i].doc]
  BY <1>4, <1>9
<1>11. \A i, j \in 1..n : i < j <=> Key(list[i].doc) < Key(list[j].doc)
  BY <1>8, <1>9
<1>12. \A d \in S : \E i \in 1..n : list[i].doc = d
  BY <1>7, <1>9
<1> QED BY <1>9, <1>10, <1>11, <1>12 DEF list

\* The next page of a sync: documents that its query selects, once each, as they
\* are; and one that it selects and has not read yet is on the page, or comes after
\* the page and the loop goes on.
LEMMA PageFacts ==
    ASSUME TypeOK, SourceOK, NEW s \in Syncs,
           NEW seq, seq = Remaining(sync[s]), NEW page, page = TakePage(seq)
    PROVE  /\ page \in Seq(Items)
           /\ \A i \in DOMAIN page : page[i].doc \in Live /\ page[i].stamp = stamp[page[i].doc]
           /\ \A i, j \in DOMAIN page : page[i].doc = page[j].doc => i = j
           /\ page # <<>> => LastKey(page) \in Nat
           /\ paging # "offset" =>
                \A d \in Selected(sync[s].scope, sync[s].since) : Key(d) > sync[s].after =>
                   \/ \E i \in DOMAIN page : page[i].doc = d
                   \/ GoesOn(page, seq) /\ page # <<>> /\ LastKey(page) < Key(d)
<1> DEFINE all == Selected(sync[s].scope, sync[s].since)
           ahead == {d \in all : Key(d) > sync[s].after}
<1>1. all \in SUBSET Live /\ ahead \in SUBSET Live
  BY DEF Selected, Live
<1>2. sync[s].offset \in Nat /\ PageSize \in Nat \ {0} /\ paging \in Pagings
  BY IngestionAssumption DEF TypeOK, SyncRecords
<1>3. \A d \in Live : Key(d) \in Nat
  BY IngestionAssumption DEF Live, Key, TypeOK, Stamps
<1> DEFINE orderly(q) ==
      /\ q \in Seq(Items)
      /\ \A i \in DOMAIN q : q[i].doc \in Live /\ q[i].stamp = stamp[q[i].doc]
      /\ \A i, j \in DOMAIN q : i < j <=> Key(q[i].doc) < Key(q[j].doc)
<1>4. orderly(Ordered(all)) /\ orderly(Ordered(ahead))
  BY <1>1, OrderedFacts
<1>5. ASSUME NEW q, orderly(q), NEW m \in Nat, NEW n \in Nat, n <= Len(q)
      PROVE  orderly(SubSeq(q, m + 1, n))
  <2>1. SubSeq(q, m + 1, n) \in Seq(Items)
    BY <1>5
  <2>2. /\ DOMAIN SubSeq(q, m + 1, n) = 1..Len(SubSeq(q, m + 1, n))
        /\ Len(SubSeq(q, m + 1, n)) = IF m + 1 <= n THEN n - m ELSE 0
        /\ \A i \in 1..Len(SubSeq(q, m + 1, n)) :
              /\ SubSeq(q, m + 1, n)[i] = q[i + m]
              /\ i + m \in DOMAIN q
    BY <1>5
  <2> QED BY <1>5, <2>1, <2>2
<1>6. orderly(seq)
  <2>1. CASE paging = "offset"
    <3>1. seq = SubSeq(Ordered(all), sync[s].offset + 1, Len(Ordered(all)))
      BY <2>1 DEF Remaining
    <3>2. Len(Ordered(all)) \in Nat
      BY <1>4
    <3> HIDE DEF orderly
    <3> QED BY <1>2, <1>4, <1>5, <3>1, <3>2
  <2>2. CASE paging # "offset"
    BY <1>4, <2>2 DEF Remaining
  <2> QED BY <2>1, <2>2
<1>7. /\ Len(page) <= Len(seq) /\ Len(page) \in Nat /\ Len(seq) \in Nat
      /\ \A i \in 1..Len(page) : page[i] = seq[i]
      /\ orderly(page)
      /\ paging # "whole" => Len(page) = IF Len(seq) < PageSize THEN Len(seq) ELSE PageSize
      /\ paging = "whole" => Len(page) = Len(seq)
  BY <1>2, <1>6, <1>5 DEF TakePage
<1>8. \A i, j \in DOMAIN page : page[i].doc = page[j].doc => i = j
  BY <1>3, <1>7
<1>9. page # <<>> => LastKey(page) = Key(page[Len(page)].doc) /\ Len(page) \in DOMAIN page
  BY <1>7 DEF LastKey, Key
<1>10. page # <<>> => LastKey(page) \in Nat
  BY <1>3, <1>7, <1>9
<1>11. ASSUME paging # "offset", NEW d \in all, Key(d) > sync[s].after,
              ~\E i \in DOMAIN page : page[i].doc = d
       PROVE  GoesOn(page, seq) /\ page # <<>> /\ LastKey(page) < Key(d)
  <2>1. seq = Ordered(ahead)
    BY <1>11 DEF Remaining
  <2>2. PICK i \in DOMAIN seq : seq[i].doc = d
    <3>1. d \in ahead
      BY <1>11
    <3>2. \A e \in ahead : \E i \in DOMAIN Ordered(ahead) : Ordered(ahead)[i].doc = e
      BY <1>1, OrderedFacts
    <3> QED BY <2>1, <3>1, <3>2
  <2>3. i > Len(page) /\ i <= Len(seq) /\ Len(page) \in Nat /\ i \in Nat
    BY <1>6, <1>7, <1>11, <2>2
  <2>4. page # <<>> /\ paging # "whole"
    BY <1>2, <1>7, <2>3
  <2>5. LastKey(page) < Key(d)
    BY <1>6, <1>7, <1>9, <2>2, <2>3, <2>4
  <2> QED BY <1>2, <1>7, <1>11, <2>3, <2>4, <2>5 DEF GoesOn, Pagings
<1> QED BY <1>7, <1>8, <1>10, <1>11

-----------------------------------------------------------------------------
(* Types.                                                                  *)

LEMMA InitTyped == Init => TypeOK /\ SourceOK
<1> SUFFICES ASSUME Init PROVE TypeOK /\ SourceOK
  OBVIOUS
<1> DEFINE upTo(d) == {e \in Docs : e <= d}
<1>1. \A d \in Docs : IsFiniteSet(upTo(d)) /\ Cardinality(upTo(d)) \in Nat
  BY IngestionAssumption, FS_Subset, FS_CardinalityType
<1>2. Cardinality(Docs) \in 0..MaxTime
  BY IngestionAssumption, FS_CardinalityType
<1>3. \A d \in Docs : Cardinality(upTo(d)) <= Cardinality(Docs)
  <2> SUFFICES ASSUME NEW d \in Docs PROVE Cardinality(upTo(d)) <= Cardinality(Docs)
    OBVIOUS
  <2>1. upTo(d) \in SUBSET Docs
    OBVIOUS
  <2> HIDE DEF upTo
  <2> QED BY <2>1, IngestionAssumption, FS_Subset
<1>4. ASSUME NEW d \in Docs, NEW e \in Docs, d < e
      PROVE  Cardinality(upTo(d)) # Cardinality(upTo(e))
  <2>0. Docs \subseteq Nat
    BY IngestionAssumption
  <2>1. upTo(d) \in SUBSET upTo(e) /\ e \in upTo(e) /\ e \notin upTo(d)
    <3>1. upTo(d) \in SUBSET upTo(e)
      <4> SUFFICES ASSUME NEW c \in Docs, c <= d PROVE c <= e
        OBVIOUS
      <4> QED BY <1>4, <2>0
    <3>2. e <= e /\ ~(e <= d)
      BY <1>4, <2>0
    <3> QED BY <3>1, <3>2
  <2> HIDE DEF upTo
  <2> QED BY <1>1, <2>1, FS_Subset
<1>5. stamp = [d \in Docs |-> Cardinality(upTo(d))]
  BY DEF Init
<1>6. stamp \in [Docs -> Stamps]
  <2> HIDE DEF upTo
  <2>1. \A d \in Docs : Cardinality(upTo(d)) \in 0..MaxTime
    BY <1>1, <1>2, <1>3, IngestionAssumption
  <2> QED BY <1>5, <2>1 DEF Stamps
<1>7. SourceOK
  <2> HIDE DEF upTo
  <2>1. \A d \in Docs : stamp[d] <= clock
    BY <1>3, <1>5 DEF Init
  <2>2. ASSUME NEW d \in Docs, NEW e \in Docs, d # e PROVE stamp[d] # stamp[e]
    BY <1>4, <1>5, <2>2, IngestionAssumption
  <2> QED BY <2>1, <2>2 DEF SourceOK
<1>8. NoSync \in SyncRecords /\ NoSync.pc = "idle"
  BY IngestionAssumption DEF NoSync, SyncRecords, Stamps
<1>9. /\ paging \in Pagings /\ clock \in Stamps
      /\ size \in [Docs -> 1..MaxChunks]
      /\ store \in [Docs -> [stamp : Stamps, size : 0..MaxChunks, tag : Tags]]
      /\ \A d \in Docs : (store[d].stamp = 0) <=> (store[d].tag = "none")
      /\ chunk \in [Docs -> [Chunks -> Stamps]]
      /\ \A d \in Docs, i \in Chunks : chunk[d][i] > 0 => store[d].stamp > 0
  BY <1>2, IngestionAssumption DEF Init, Stamps, Chunks, Tags
<1>10. /\ sync \in [Syncs -> SyncRecords]
       /\ \A s \in Syncs : sync[s].pc = "read" => sync[s].scope # NoScope
       /\ last \in {"none", "success", "error"}
       /\ due \in [Syncs -> SUBSET Docs]
       /\ alone \in [Syncs -> BOOLEAN]
       /\ faults \in 0..MaxFaults
       /\ starts \in 0..MaxStarts
  BY <1>8, IngestionAssumption DEF Init
<1> QED BY <1>6, <1>7, <1>9, <1>10 DEF TypeOK

\* A step that changes one sync, to a row of its type.
LEMMA RowTyped ==
    ASSUME TypeOK, NEW s \in Syncs, NEW row \in SyncRecords,
           row.pc = "read" => row.scope # NoScope,
           sync' = [sync EXCEPT ![s] = row]
    PROVE  /\ sync' \in [Syncs -> SyncRecords]
           /\ \A t \in Syncs : sync'[t].pc = "read" => sync'[t].scope # NoScope
           /\ sync'[s] = row
           /\ \A t \in Syncs : t # s => sync'[t] = sync[t]
BY DEF TypeOK

LEMMA SourceStepTyped ==
    ASSUME TypeOK, SourceOK, NEW d \in Docs, EditAtSource(d) \/ DeleteAtSource(d)
    PROVE  TypeOK' /\ SourceOK'
<1>1. /\ clock' = clock + 1 /\ clock' \in Stamps /\ clock \in Nat
      /\ stamp' = [stamp EXCEPT ![d] = stamp'[d]]
      /\ stamp'[d] \in {0, clock + 1}
      /\ stamp' \in [Docs -> Stamps]
  BY IngestionAssumption DEF EditAtSource, DeleteAtSource, TypeOK, Stamps
<1>2. size' \in [Docs -> 1..MaxChunks]
  BY DEF EditAtSource, DeleteAtSource, TypeOK
<1>3. due' = [s \in Syncs |-> due[s] \ {d}]
  BY DEF EditAtSource, DeleteAtSource
<1>4. UNCHANGED <<paging, store, chunk, sync, last, alone, faults, starts>>
  BY DEF EditAtSource, DeleteAtSource, storeVars
<1>5. TypeOK'
  BY <1>1, <1>2, <1>3, <1>4 DEF TypeOK
<1>6. \A e \in Docs : stamp[e] <= clock /\ stamp[e] \in Nat
  BY DEF SourceOK, TypeOK, Stamps
<1>7. SourceOK'
  BY <1>1, <1>6 DEF SourceOK
<1> QED BY <1>5, <1>7

LEMMA BeginTyped ==
    ASSUME TypeOK, NEW s \in Syncs, NEW r \in SyncRecords, r.pc # "read", Begin(s, r)
    PROVE  TypeOK'
<1>1. /\ sync' \in [Syncs -> SyncRecords]
      /\ \A t \in Syncs : sync'[t].pc = "read" => sync'[t].scope # NoScope
  BY RowTyped DEF Begin
<1>2. due' \in [Syncs -> SUBSET Docs] /\ alone' \in [Syncs -> BOOLEAN]
  <2>1. \A k : Selected(k, r.since) \subseteq Docs
    BY DEF Selected
  <2>2. due' = [due EXCEPT ![s] = UNION {Selected(k, r.since) : k \in r.left}]
    BY DEF Begin
  <2>3. due' \in [Syncs -> SUBSET Docs]
    BY <2>1, <2>2 DEF TypeOK
  <2> DEFINE mine == \A u \in Syncs : ~Busy(u)
             others(t) == alone[t] /\ ~Busy(t)
  <2>4. alone' = [t \in Syncs |-> IF t = s THEN mine ELSE others(t)]
    BY DEF Begin
  <2>5. mine \in BOOLEAN /\ \A t \in Syncs : others(t) \in BOOLEAN
    OBVIOUS
  <2> HIDE DEF mine, others
  <2> QED BY <2>3, <2>4, <2>5
<1>3. starts' \in 0..MaxStarts
  BY IngestionAssumption DEF Begin, TypeOK
<1>4. UNCHANGED <<paging, clock, stamp, size, store, chunk, last, faults>>
  BY DEF Begin, sourceVars, storeVars
<1> QED BY <1>1, <1>2, <1>3, <1>4 DEF TypeOK

\* The records that the two ways of starting a sync begin with.
LEMMA StartRows ==
    ASSUME NEW s \in Syncs, StartInstanceSync(s) \/ StartDirectSync(s)
    PROVE  \E r \in SyncRecords :
              /\ Begin(s, r)
              /\ r.pc \in {"next", "record"} /\ r.page = <<>>
              /\ r.pc = "record" => r.left = {}
<1>0. NoScope \in Scopes \cup {NoScope} /\ Scoped \subseteq Scopes /\ 0 \in Stamps
      /\ Cursors \subseteq Stamps
  BY IngestionAssumption DEF Stamps
<1>3. NoSync \in SyncRecords /\ NoSync.page = <<>> /\ NoSync.left = {}
  BY <1>0 DEF NoSync, SyncRecords
<1>1. CASE StartInstanceSync(s)
  <2> DEFINE ok == [NoSync EXCEPT !.admin = TRUE, !.pc = "next", !.left = Scoped]
             no == [NoSync EXCEPT !.admin = TRUE, !.pc = "record", !.failed = Scopes]
  <2>1. /\ ok = [[NoSync EXCEPT !.admin = TRUE] EXCEPT !.pc = "next", !.left = Scoped]
        /\ no = [[NoSync EXCEPT !.admin = TRUE] EXCEPT !.pc = "record", !.failed = Scopes]
    BY Zenon DEF NoSync
  <2>2. ok \in SyncRecords /\ ok.pc = "next" /\ ok.page = <<>>
    BY <1>0, <1>3 DEF SyncRecords
  <2>3. no \in SyncRecords /\ no.pc = "record" /\ no.page = <<>> /\ no.left = {}
    BY <1>0, <1>3 DEF SyncRecords
  <2>4. Begin(s, ok) \/ Begin(s, no)
    BY <1>1, <2>1 DEF StartInstanceSync
  <2> HIDE DEF ok, no
  <2> QED BY <2>2, <2>3, <2>4
<1>2. CASE StartDirectSync(s)
  <2>1. PICK k \in Scopes, since \in Cursors :
           Begin(s, [NoSync EXCEPT !.pc = "next", !.left = {k}, !.since = since])
    BY <1>2 DEF StartDirectSync
  <2> DEFINE r == [NoSync EXCEPT !.pc = "next", !.left = {k}, !.since = since]
  <2>2. r \in SyncRecords /\ r.pc = "next" /\ r.page = <<>>
    BY <1>0, <1>3 DEF SyncRecords
  <2> HIDE DEF r
  <2> QED BY <2>1, <2>2 DEF r
<1> QED BY <1>1, <1>2

\* A step of one sync, which goes on with the scopes of the same request.
Moves(s) ==
    /\ \A t \in Syncs : t # s => sync'[t] = sync[t]
    /\ sync'[s].admin = sync[s].admin
    /\ sync'[s].since = sync[s].since

LEMMA NextScopeRow ==
    ASSUME TypeOK, NEW s \in Syncs, NextScope(s)
    PROVE  /\ TypeOK' /\ Moves(s)
           /\ sync'[s].pc = "read" /\ sync'[s].after = 0
           /\ sync'[s].page = <<>> /\ sync'[s].more
           /\ sync'[s].scope \in sync[s].left
           /\ sync'[s].left = sync[s].left \ {sync'[s].scope}
           /\ sync'[s].failed = sync[s].failed
<1>1. PICK k \in sync[s].left :
         sync' = [sync EXCEPT ![s].pc = "read", ![s].left = @ \ {k}, ![s].scope = k,
                              ![s].after = 0, ![s].offset = 0,
                              ![s].page = <<>>, ![s].more = TRUE]
  BY DEF NextScope
<1> DEFINE old == sync[s]
           row == [old EXCEPT !.pc = "read", !.left = @ \ {k}, !.scope = k,
                              !.after = 0, !.offset = 0, !.page = <<>>, !.more = TRUE]
<1>2. sync' = [sync EXCEPT ![s] = row]
  BY <1>1 DEF TypeOK
<1>3. old \in SyncRecords /\ k \in Scopes /\ k # NoScope
  BY IngestionAssumption DEF TypeOK, SyncRecords
<1> HIDE DEF old
<1>3a. /\ <<>> \in Seq(Items) /\ old.left \ {k} \in SUBSET Scopes
  BY <1>3 DEF SyncRecords
<1>4. /\ row \in SyncRecords /\ row.scope # NoScope
      /\ row.admin = old.admin /\ row.since = old.since /\ row.pc = "read"
      /\ row.after = 0 /\ row.page = <<>> /\ row.more /\ row.scope = k
      /\ row.left = old.left \ {k} /\ row.failed = old.failed
  BY <1>3, <1>3a DEF SyncRecords
<1> HIDE DEF row
<1>5. /\ sync' \in [Syncs -> SyncRecords] /\ sync'[s] = row
      /\ \A t \in Syncs : sync'[t].pc = "read" => sync'[t].scope # NoScope
      /\ \A t \in Syncs : t # s => sync'[t] = sync[t]
  BY <1>2, <1>4, RowTyped
<1>6. UNCHANGED <<sourceVars, storeVars, last, due, alone, faults, starts>>
  BY DEF NextScope
<1>7. TypeOK'
  BY <1>5, <1>6 DEF TypeOK, sourceVars, storeVars
<1> QED BY <1>1, <1>4, <1>5, <1>7 DEF Moves, old

LEMMA LoseScopesRow ==
    ASSUME TypeOK, NEW s \in Syncs, NEW lost \in SUBSET sync[s].left, LoseScopes(s, lost)
    PROVE  /\ TypeOK' /\ Moves(s)
           /\ sync'[s].pc = "next" /\ sync'[s].page = sync[s].page
           /\ sync'[s].left \subseteq sync[s].left
           /\ sync'[s].left \cup sync'[s].failed = sync[s].left \cup sync[s].failed
<1>1. sync' = [sync EXCEPT ![s].left = @ \ lost, ![s].failed = @ \cup lost]
  BY DEF LoseScopes
<1> DEFINE old == sync[s]
           row == [old EXCEPT !.left = @ \ lost, !.failed = @ \cup lost]
<1>2. sync' = [sync EXCEPT ![s] = row]
  BY <1>1 DEF TypeOK
<1>3. old \in SyncRecords /\ lost \in SUBSET Scopes /\ old.pc = "next"
  BY DEF TypeOK, SyncRecords, LoseScopes
<1> HIDE DEF old
<1>4. /\ row \in SyncRecords
      /\ row.admin = old.admin /\ row.since = old.since /\ row.pc = "next"
      /\ row.page = old.page
      /\ row.left = old.left \ lost /\ row.failed = old.failed \cup lost
  BY <1>3 DEF SyncRecords
<1> HIDE DEF row
<1>5. /\ sync' \in [Syncs -> SyncRecords] /\ sync'[s] = row
      /\ \A t \in Syncs : sync'[t].pc = "read" => sync'[t].scope # NoScope
      /\ \A t \in Syncs : t # s => sync'[t] = sync[t]
  BY <1>2, <1>4, RowTyped
<1>6. /\ UNCHANGED <<sourceVars, storeVars, last, due, alone, starts>>
      /\ faults' \in 0..MaxFaults
  BY IngestionAssumption DEF LoseScopes, TypeOK
<1>7. TypeOK'
  BY <1>5, <1>6 DEF TypeOK, sourceVars, storeVars
<1> QED BY <1>1, <1>4, <1>5, <1>7 DEF Moves, old

\* A test of the connection that fails, or raises, is such a loss.
LEMMA LossesAre ==
    ASSUME NEW s \in Syncs, CannotConnect(s) \/ ConnectionRaises(s)
    PROVE  \E lost \in SUBSET sync[s].left : LoseScopes(s, lost)
  BY DEF CannotConnect, ConnectionRaises

LEMMA FetchPageRow ==
    ASSUME TypeOK, SourceOK, NEW s \in Syncs, FetchPage(s)
    PROVE  \E seq, page :
              /\ TypeOK' /\ Moves(s)
              /\ seq = Remaining(sync[s]) /\ page = TakePage(seq)
              /\ sync'[s].pc = "read" /\ sync'[s].page = page
              /\ sync'[s].more = GoesOn(page, seq)
              /\ sync'[s].after = IF page = <<>> THEN sync[s].after ELSE LastKey(page)
              /\ sync'[s].scope = sync[s].scope /\ sync'[s].left = sync[s].left
              /\ sync'[s].failed = sync[s].failed
<1> DEFINE old == sync[s]
           seq == Remaining(old)
           page == TakePage(seq)
           more == GoesOn(page, seq)
           after == IF page = <<>> THEN old.after ELSE LastKey(page)
           row == [old EXCEPT !.page = page, !.more = more, !.after = after,
                              !.offset = @ + PageSize]
<1>1. sync' = [sync EXCEPT ![s] = row]
  BY DEF TypeOK, FetchPage
<1>2. page \in Seq(Items) /\ (page # <<>> => LastKey(page) \in Nat)
  BY PageFacts
<1>3. more \in BOOLEAN
  BY DEF GoesOn
<1>4. old \in SyncRecords /\ old.pc = "read" /\ old.scope # NoScope
  BY DEF TypeOK, FetchPage
<1> HIDE DEF old, seq, page, more
<1>5. after \in Nat /\ old.offset + PageSize \in Nat
  BY <1>2, <1>4, IngestionAssumption DEF SyncRecords
<1> HIDE DEF after
<1>6. /\ row \in SyncRecords /\ row.scope = old.scope
      /\ row.admin = old.admin /\ row.since = old.since /\ row.pc = "read"
      /\ row.page = page /\ row.more = more /\ row.after = after
      /\ row.left = old.left /\ row.failed = old.failed
  BY <1>2, <1>3, <1>4, <1>5 DEF SyncRecords
<1> HIDE DEF row
<1>7. /\ sync' \in [Syncs -> SyncRecords] /\ sync'[s] = row
      /\ \A t \in Syncs : sync'[t].pc = "read" => sync'[t].scope # NoScope
      /\ \A t \in Syncs : t # s => sync'[t] = sync[t]
  BY <1>1, <1>4, <1>6, RowTyped
<1>8. UNCHANGED <<sourceVars, storeVars, last, due, alone, faults, starts>>
  BY DEF FetchPage
<1>9. TypeOK'
  BY <1>7, <1>8 DEF TypeOK, sourceVars, storeVars
<1>10. Moves(s)
  BY <1>6, <1>7 DEF Moves, old
<1>11. seq = Remaining(sync[s]) /\ page = TakePage(seq)
  BY DEF seq, page, old
<1>12. /\ sync'[s].page = page /\ sync'[s].more = GoesOn(page, seq)
       /\ sync'[s].after = IF page = <<>> THEN sync[s].after ELSE LastKey(page)
  BY <1>6, <1>7 DEF more, after, old
<1> QED BY <1>6, <1>7, <1>9, <1>10, <1>11, <1>12 DEF old

LEMMA StoreRecordRow ==
    ASSUME TypeOK, NEW s \in Syncs, StoreRecord(s)
    PROVE  \E r \in Items :
              /\ TypeOK' /\ Moves(s)
              /\ sync[s].page # <<>> /\ r = sync[s].page[1]
              /\ store'[r.doc].stamp = r.stamp
              /\ store'[r.doc].tag = IF sync[s].admin THEN "instance" ELSE "untagged"
              /\ \A d \in Docs : d # r.doc => store'[d] = store[d]
              /\ sync[s].pc = "read" /\ sync'[s].pc = "read"
              /\ sync'[s].page = Tail(sync[s].page)
              /\ sync'[s].more = sync[s].more /\ sync'[s].after = sync[s].after
              /\ sync'[s].scope = sync[s].scope /\ sync'[s].left = sync[s].left
              /\ sync'[s].failed = sync[s].failed
<1> DEFINE old == sync[s]
           r == Head(old.page)
           new == [old EXCEPT !.page = Tail(@)]
           row == [stamp |-> r.stamp, size |-> r.size,
                   tag |-> IF old.admin THEN "instance" ELSE "untagged"]
<1>1. /\ store' = [store EXCEPT ![r.doc] = row]
      /\ chunk' = [chunk EXCEPT ![r.doc] = Upserted(chunk[r.doc], r)]
      /\ sync' = [sync EXCEPT ![s] = new]
  BY DEF StoreRecord, TypeOK
<1>2. old \in SyncRecords /\ old.pc = "read" /\ old.scope # NoScope /\ old.page # <<>>
  BY DEF TypeOK, StoreRecord
<1> HIDE DEF old
<1>3. r \in Items /\ r = old.page[1] /\ Tail(old.page) \in Seq(Items)
  BY <1>2 DEF SyncRecords
<1> HIDE DEF r
<1>4. /\ new \in SyncRecords /\ new.scope = old.scope /\ new.pc = "read"
      /\ new.admin = old.admin /\ new.since = old.since
      /\ new.page = Tail(old.page) /\ new.more = old.more /\ new.after = old.after
      /\ new.left = old.left /\ new.failed = old.failed
  BY <1>2, <1>3 DEF SyncRecords
<1> HIDE DEF new
<1>5. /\ sync' \in [Syncs -> SyncRecords] /\ sync'[s] = new
      /\ \A t \in Syncs : sync'[t].pc = "read" => sync'[t].scope # NoScope
      /\ \A t \in Syncs : t # s => sync'[t] = sync[t]
  BY <1>1, <1>2, <1>4, RowTyped
<1>6. /\ r.doc \in Docs /\ r.stamp \in Stamps /\ r.stamp > 0
      /\ r.size \in 1..MaxChunks
  BY <1>3 DEF Items, Stamps
<1>7. /\ row \in [stamp : Stamps, size : 0..MaxChunks, tag : Tags]
      /\ row.tag # "none" /\ row.stamp = r.stamp
      /\ row.tag = IF old.admin THEN "instance" ELSE "untagged"
  BY <1>6 DEF Tags
<1> HIDE DEF row
<1>8. /\ store' \in [Docs -> [stamp : Stamps, size : 0..MaxChunks, tag : Tags]]
      /\ \A d \in Docs : (store'[d].stamp = 0) <=> (store'[d].tag = "none")
      /\ store'[r.doc] = row /\ \A d \in Docs : d # r.doc => store'[d] = store[d]
  BY <1>1, <1>6, <1>7 DEF TypeOK
<1>9. /\ chunk' \in [Docs -> [Chunks -> Stamps]]
      /\ \A d \in Docs, i \in Chunks : chunk'[d][i] > 0 => store'[d].stamp > 0
  <2>1. Upserted(chunk[r.doc], r) \in [Chunks -> Stamps]
    BY <1>6 DEF Upserted, TypeOK
  <2> QED BY <1>1, <1>6, <1>7, <1>8, <2>1 DEF TypeOK
<1>10. UNCHANGED <<sourceVars, last, due, alone, faults, starts>>
  BY DEF StoreRecord
<1>11. TypeOK'
  BY <1>5, <1>8, <1>9, <1>10 DEF TypeOK, sourceVars
<1>12. Moves(s)
  BY <1>4, <1>5 DEF Moves, old
<1> QED BY <1>2, <1>3, <1>4, <1>5, <1>7, <1>8, <1>11, <1>12 DEF old

\* The sync leaves its scope, which failed or is done.
LEMMA ScopeEndsRow ==
    ASSUME TypeOK, NEW s \in Syncs, ScopeFails(s) \/ ScopeDone(s) \/ NothingLeft(s)
    PROVE  /\ TypeOK' /\ Moves(s)
           /\ sync'[s].pc = IF sync[s].left = {} THEN "record" ELSE "next"
           /\ sync'[s].page \in {sync[s].page, <<>>}
           /\ sync'[s].left = sync[s].left
           /\ sync[s].failed \subseteq sync'[s].failed
           /\ ScopeFails(s) => sync[s].scope \in sync'[s].failed
<1> DEFINE old == sync[s]
           next == IF old.left = {} THEN "record" ELSE "next"
           fails == [old EXCEPT !.pc = next, !.failed = @ \cup {old.scope},
                                !.page = <<>>, !.more = FALSE]
           done == [old EXCEPT !.pc = next]
           row == IF ScopeFails(s) THEN fails ELSE done
<1>1. /\ ScopeFails(s) => sync' = [sync EXCEPT ![s] = fails] /\ old.pc = "read"
      /\ ~ScopeFails(s) => sync' = [sync EXCEPT ![s] = done]
  BY DEF ScopeFails, ScopeDone, NothingLeft, TypeOK
<1>2. old \in SyncRecords /\ (old.pc = "read" => old.scope # NoScope)
  BY DEF TypeOK
<1>3. next \in {"next", "record"}
  OBVIOUS
<1> HIDE DEF old, next
<1>4. old.pc = "read" => old.scope \in Scopes
  BY <1>2 DEF SyncRecords
<1>5. <<>> \in Seq(Items)
  OBVIOUS
<1>6. /\ ScopeFails(s) => fails \in SyncRecords
      /\ fails.pc = next /\ fails.admin = old.admin /\ fails.since = old.since
      /\ fails.page = <<>> /\ fails.left = old.left
      /\ fails.failed = old.failed \cup {old.scope}
  BY <1>1, <1>2, <1>3, <1>4, <1>5 DEF SyncRecords
<1>7. /\ done \in SyncRecords
      /\ done.pc = next /\ done.admin = old.admin /\ done.since = old.since
      /\ done.page = old.page /\ done.left = old.left /\ done.failed = old.failed
  BY <1>2, <1>3 DEF SyncRecords
<1> HIDE DEF fails, done
<1>8. /\ row \in SyncRecords /\ row.pc = next
      /\ row.admin = old.admin /\ row.since = old.since
      /\ row.page \in {old.page, <<>>} /\ row.left = old.left
      /\ old.failed \subseteq row.failed
      /\ ScopeFails(s) => old.scope \in row.failed
  BY <1>6, <1>7
<1>9. sync' = [sync EXCEPT ![s] = row]
  BY <1>1
<1> HIDE DEF row
<1>10. /\ sync' \in [Syncs -> SyncRecords] /\ sync'[s] = row
       /\ \A t \in Syncs : sync'[t].pc = "read" => sync'[t].scope # NoScope
       /\ \A t \in Syncs : t # s => sync'[t] = sync[t]
  BY <1>3, <1>8, <1>9, RowTyped
<1>11. /\ UNCHANGED <<sourceVars, storeVars, last, due, alone, starts>>
       /\ faults' \in 0..MaxFaults
  <2>1. UNCHANGED <<sourceVars, storeVars, last, due, alone, starts>>
    BY DEF ScopeFails, ScopeDone, NothingLeft
  <2>2. faults' = faults \/ (faults < MaxFaults /\ faults' = faults + 1)
    BY DEF ScopeFails, ScopeDone, NothingLeft
  <2>3. faults \in 0..MaxFaults
    BY DEF TypeOK
  <2> QED BY <2>1, <2>2, <2>3, IngestionAssumption
<1>12. TypeOK'
  BY <1>10, <1>11 DEF TypeOK, sourceVars, storeVars
<1>13. Moves(s)
  BY <1>8, <1>10 DEF Moves, old
<1> QED BY <1>8, <1>10, <1>12, <1>13 DEF old, next

LEMMA EndTyped ==
    ASSUME TypeOK, Restart \/ \E s \in Syncs : Answer(s)
    PROVE  TypeOK'
<1>1. NoSync \in SyncRecords /\ NoSync.pc = "idle"
  BY IngestionAssumption DEF NoSync, SyncRecords, Stamps
<1> HIDE DEF NoSync
<1>2. CASE Restart
  <2>1. sync' \in [Syncs -> SyncRecords] /\ \A t \in Syncs : sync'[t] = NoSync
    BY <1>1, <1>2 DEF Restart
  <2>2. faults' \in 0..MaxFaults
    BY <1>2, IngestionAssumption DEF Restart, TypeOK
  <2>3. due' \in [Syncs -> SUBSET Docs] /\ alone' \in [Syncs -> BOOLEAN]
    BY <1>2 DEF Restart
  <2> QED BY <1>1, <1>2, <2>1, <2>2, <2>3 DEF TypeOK, Restart, sourceVars, storeVars
<1>3. ASSUME NEW s \in Syncs, Answer(s) PROVE TypeOK'
  <2>1. /\ sync' \in [Syncs -> SyncRecords]
        /\ \A t \in Syncs : sync'[t].pc = "read" => sync'[t].scope # NoScope
    BY <1>1, <1>3, RowTyped DEF Answer
  <2>2. last' \in {"none", "success", "error"}
    BY <1>3 DEF Answer, TypeOK
  <2>3. due' \in [Syncs -> SUBSET Docs] /\ alone' \in [Syncs -> BOOLEAN]
    BY <1>3 DEF Answer, TypeOK
  <2> QED BY <1>3, <2>1, <2>2, <2>3 DEF TypeOK, Answer, sourceVars, storeVars
<1> QED BY <1>2, <1>3

LEMMA StepTyped ==
    ASSUME TypeOK, SourceOK, [Next]_vars
    PROVE  TypeOK' /\ SourceOK'
<1>1. CASE UNCHANGED vars
  BY <1>1 DEF vars, TypeOK, SourceOK
<1>2. ASSUME NEW d \in Docs, EditAtSource(d) \/ DeleteAtSource(d)
      PROVE  TypeOK' /\ SourceOK'
  BY <1>2, SourceStepTyped
<1>3. ASSUME UNCHANGED sourceVars PROVE SourceOK'
  BY <1>3 DEF SourceOK, sourceVars
<1>4. ASSUME NEW s \in Syncs, StartInstanceSync(s) \/ StartDirectSync(s)
      PROVE  TypeOK' /\ SourceOK'
  <2>1. PICK r \in SyncRecords : Begin(s, r) /\ r.pc \in {"next", "record"}
    BY <1>4, StartRows
  <2> QED BY <1>3, <2>1, BeginTyped DEF Begin
<1>5. ASSUME NEW s \in Syncs, NextScope(s) \/ FetchPage(s) \/ StoreRecord(s)
      PROVE  TypeOK' /\ SourceOK'
  BY <1>3, <1>5, NextScopeRow, FetchPageRow, StoreRecordRow
     DEF NextScope, FetchPage, StoreRecord
<1>6. ASSUME NEW s \in Syncs,
             \/ CannotConnect(s) \/ ConnectionRaises(s)
             \/ ScopeFails(s) \/ ScopeDone(s) \/ NothingLeft(s)
      PROVE  TypeOK' /\ SourceOK'
  <2>1. CASE CannotConnect(s) \/ ConnectionRaises(s)
    BY <1>3, <2>1, LossesAre, LoseScopesRow DEF LoseScopes
  <2>2. CASE ScopeFails(s) \/ ScopeDone(s) \/ NothingLeft(s)
    BY <1>3, <2>2, ScopeEndsRow DEF ScopeFails, ScopeDone, NothingLeft
  <2> QED BY <1>6, <2>1, <2>2
<1>7. CASE Restart \/ \E s \in Syncs : Answer(s)
  BY <1>3, <1>7, EndTyped DEF Restart, Answer
<1> QED BY <1>1, <1>2, <1>4, <1>5, <1>6, <1>7 DEF Next, Step

\* Every variable keeps its type, a row has a tag exactly when it exists, a chunk has
\* its document and a sync that reads has a scope (trigger_sync, IngestionPipeline.run).
THEOREM TypeInvariant == Spec => []TypeOK
<1>1. Init => TypeOK /\ SourceOK
  BY InitTyped
<1>2. TypeOK /\ SourceOK /\ [Next]_vars => TypeOK' /\ SourceOK'
  BY StepTyped
<1> QED BY <1>1, <1>2, PTL DEF Spec

-----------------------------------------------------------------------------
(* What a sync has read, and what is left to it.                           *)

\* No row is ahead of its document at the source.
StoreBehind ==
    \A d \in Docs : /\ store[d].stamp <= clock
                    /\ stamp[d] > 0 => store[d].stamp <= stamp[d]

AloneIsAlone ==
    \A s, t \in Syncs : s # t /\ Busy(s) /\ alone[s] => ~Busy(t)

\* A page holds each document once, in a version the source had: the current one when
\* the document was not edited since the sync began, and, when no other sync stores,
\* never an older one than the row.
PageOK(s) ==
    \A i \in DOMAIN sync[s].page :
        LET r == sync[s].page[i]
        IN  /\ r.stamp <= clock
            /\ stamp[r.doc] > 0 => r.stamp <= stamp[r.doc]
            /\ r.doc \in due[s] => r.stamp = stamp[r.doc]
            /\ Busy(s) /\ alone[s] => store[r.doc].stamp <= r.stamp
            /\ \A j \in DOMAIN sync[s].page : sync[s].page[j].doc = r.doc => j = i

\* What is due is still selected by the query of the sync.
DueOK(s) ==
    \A d \in due[s] : /\ stamp[d] > 0
                      /\ paging # "links" => stamp[d] >= sync[s].since

\* The sync is reading the scope of d and has not stored it yet.
StillAhead(s, d) ==
    /\ sync[s].pc = "read" /\ sync[s].scope = ScopeOf[d]
    /\ \/ \E i \in DOMAIN sync[s].page : sync[s].page[i].doc = d
       \/ sync[s].more /\ Key(d) > sync[s].after

Covered(s, d) ==
    \/ ScopeOf[d] \in sync[s].left \cup sync[s].failed
    \/ UpToDate(s, d)
    \/ StillAhead(s, d)

CoveredOK(s) ==
    Busy(s) /\ alone[s] /\ paging # "offset" => \A d \in due[s] : Covered(s, d)

RecordsLast(s) == sync[s].pc = "record" => sync[s].left = {}

SyncOK(s) == PageOK(s) /\ DueOK(s) /\ CoveredOK(s) /\ RecordsLast(s)

IInv ==
    /\ TypeOK /\ SourceOK /\ StoreBehind /\ AloneIsAlone
    /\ \A s \in Syncs : SyncOK(s)

LEMMA InitIInv == Init => IInv
<1> SUFFICES ASSUME Init PROVE IInv
  OBVIOUS
<1>1. TypeOK /\ SourceOK
  BY InitTyped
<1>2. \A s \in Syncs : sync[s] = NoSync /\ due[s] = {}
  BY DEF Init
<1>3. NoSync.page = <<>> /\ NoSync.pc = "idle"
  BY DEF NoSync
<1>4. StoreBehind
  BY <1>1 DEF Init, StoreBehind, TypeOK, Stamps
<1>5. AloneIsAlone
  BY <1>2, <1>3 DEF AloneIsAlone, Busy
<1>6. \A s \in Syncs : SyncOK(s)
  BY <1>2, <1>3 DEF SyncOK, PageOK, DueOK, CoveredOK, RecordsLast, Busy
<1> QED BY <1>1, <1>4, <1>5, <1>6 DEF IInv

LEMMA PageTyped ==
    ASSUME TypeOK, NEW s \in Syncs
    PROVE  /\ sync[s].page \in Seq(Items)
           /\ \A i \in DOMAIN sync[s].page : /\ sync[s].page[i].doc \in Docs
                                            /\ sync[s].page[i].stamp \in Nat
<1>1. sync[s].page \in Seq(Items)
  BY DEF TypeOK, SyncRecords
<1>2. \A r \in Items : r.doc \in Docs /\ r.stamp \in Nat
  BY DEF Items, Stamps
<1> QED BY <1>1, <1>2

\* A change at the source makes no row and no page newer than it, and takes the
\* document out of what is due.
LEMMA SourceStepKeeps ==
    ASSUME IInv, NEW d \in Docs, EditAtSource(d) \/ DeleteAtSource(d)
    PROVE  IInv'
<1>1. TypeOK' /\ SourceOK'
  BY SourceStepTyped DEF IInv
<1>2. /\ clock \in Nat /\ clock' = clock + 1
      /\ stamp'[d] \in {0, clock + 1}
      /\ \A e \in Docs : e # d => stamp'[e] = stamp[e]
      /\ \A s \in Syncs : due'[s] = due[s] \ {d}
      /\ UNCHANGED <<paging, store, sync, alone>>
  BY DEF EditAtSource, DeleteAtSource, storeVars, IInv, TypeOK, Stamps
<1>3. \A e \in Docs : store[e].stamp \in Nat
  BY DEF IInv, TypeOK, Stamps
<1>4. StoreBehind'
  BY <1>2, <1>3 DEF IInv, StoreBehind
<1>5. AloneIsAlone'
  BY <1>2 DEF IInv, AloneIsAlone, Busy
<1>6. ASSUME NEW s \in Syncs PROVE SyncOK(s)'
  <2>1. \A i \in DOMAIN sync[s].page : /\ sync[s].page[i].doc \in Docs
                                       /\ sync[s].page[i].stamp \in Nat
    BY PageTyped DEF IInv
  <2>2. PageOK(s) /\ DueOK(s) /\ CoveredOK(s) /\ RecordsLast(s)
    BY DEF IInv, SyncOK
  <2>3. PageOK(s)'
    BY <1>2, <2>1, <2>2 DEF PageOK, Busy
  <2>4. due[s] \subseteq Docs
    BY DEF IInv, TypeOK
  <2>5. DueOK(s)'
    BY <1>2, <2>2, <2>4 DEF DueOK
  <2>6. ASSUME NEW e \in due[s], e # d, Covered(s, e) PROVE Covered(s, e)'
    BY <1>2, <2>4, <2>6 DEF Covered, StillAhead, UpToDate, Key
  <2>7. CoveredOK(s)'
    BY <1>2, <2>2, <2>6 DEF CoveredOK, Busy
  <2>8. RecordsLast(s)'
    BY <1>2, <2>2 DEF RecordsLast
  <2> QED BY <2>3, <2>5, <2>7, <2>8 DEF SyncOK
<1> QED BY <1>1, <1>4, <1>5, <1>6 DEF IInv

\* A sync that begins has all its scopes left; the others are no longer alone.
LEMMA BeginKeeps ==
    ASSUME IInv, NEW s \in Syncs, NEW r \in SyncRecords, Begin(s, r), TypeOK',
           r.pc \in {"next", "record"}, r.page = <<>>, r.pc = "record" => r.left = {}
    PROVE  IInv'
<1>1. /\ sync'[s] = r /\ ~Busy(s)
      /\ \A t \in Syncs : t # s => sync'[t] = sync[t] /\ due'[t] = due[t]
      /\ due'[s] = UNION {Selected(k, r.since) : k \in r.left}
      /\ UNCHANGED <<paging, clock, stamp, store>>
  BY DEF Begin, IInv, TypeOK, sourceVars, storeVars
<1>2. /\ alone'[s] => \A u \in Syncs : ~Busy(u)
      /\ \A t \in Syncs : t # s => (alone'[t] => alone[t] /\ ~Busy(t))
  BY DEF Begin
<1>3. SourceOK' /\ StoreBehind'
  BY <1>1 DEF IInv, SourceOK, StoreBehind
<1>4. AloneIsAlone'
  BY <1>1, <1>2 DEF AloneIsAlone, Busy
<1>5. SyncOK(s)'
  <2>1. PageOK(s)' /\ RecordsLast(s)'
    BY <1>1 DEF PageOK, RecordsLast
  <2>2. ASSUME NEW d \in due'[s]
        PROVE  /\ ScopeOf[d] \in r.left /\ stamp[d] > 0
               /\ paging # "links" => stamp[d] >= r.since
    BY <1>1 DEF Selected
  <2>3. DueOK(s)'
    BY <1>1, <2>2 DEF DueOK
  <2>4. CoveredOK(s)'
    BY <1>1, <2>2 DEF CoveredOK, Covered
  <2> QED BY <2>1, <2>3, <2>4 DEF SyncOK
<1>6. ASSUME NEW t \in Syncs, t # s PROVE SyncOK(t)'
  <2>1. PageOK(t) /\ DueOK(t) /\ RecordsLast(t)
    BY DEF IInv, SyncOK
  <2>2. ~(Busy(t)' /\ alone'[t])
    BY <1>1, <1>2, <1>6 DEF Busy
  <2>3. PageOK(t)'
    BY <1>1, <1>6, <2>1, <2>2 DEF PageOK
  <2>4. DueOK(t)' /\ RecordsLast(t)'
    BY <1>1, <1>6, <2>1 DEF DueOK, RecordsLast
  <2>5. CoveredOK(t)'
    BY <2>2 DEF CoveredOK
  <2> QED BY <2>3, <2>4, <2>5 DEF SyncOK
<1> QED BY <1>3, <1>4, <1>5, <1>6 DEF IInv

\* While one sync moves, another that is busy is not alone: what it holds stays good.
LEMMA OthersKeep ==
    ASSUME IInv, NEW s \in Syncs, Moves(s), Busy(s), Busy(s)',
           UNCHANGED <<sourceVars, due, alone>>
    PROVE  /\ SourceOK' /\ AloneIsAlone' /\ DueOK(s)'
           /\ \A t \in Syncs : t # s => SyncOK(t)'
<1>1. SourceOK'
  BY DEF IInv, SourceOK, sourceVars
<1>2. \A t \in Syncs : Busy(t)' <=> Busy(t)
  BY DEF Moves, Busy
<1>3. AloneIsAlone'
  BY <1>2 DEF IInv, AloneIsAlone
<1>4. DueOK(s)'
  BY DEF IInv, SyncOK, DueOK, Moves, sourceVars
<1>5. ASSUME NEW t \in Syncs, t # s PROVE SyncOK(t)'
  <2>1. PageOK(t) /\ DueOK(t) /\ RecordsLast(t) /\ sync'[t] = sync[t]
    BY <1>5 DEF IInv, SyncOK, Moves
  <2>2. ~(Busy(t)' /\ alone'[t])
    BY <1>2, <1>5 DEF IInv, AloneIsAlone
  <2>3. PageOK(t)'
    BY <2>1, <2>2 DEF PageOK, sourceVars
  <2>4. DueOK(t)' /\ RecordsLast(t)'
    BY <2>1 DEF DueOK, RecordsLast, sourceVars
  <2>5. CoveredOK(t)'
    BY <2>2 DEF CoveredOK
  <2> QED BY <2>3, <2>4, <2>5 DEF SyncOK
<1> QED BY <1>1, <1>3, <1>4, <1>5

LEMMA NextScopeKeeps ==
    ASSUME IInv, NEW s \in Syncs, NextScope(s)
    PROVE  IInv'
<1>1. /\ TypeOK' /\ Moves(s)
      /\ sync'[s].pc = "read" /\ sync'[s].after = 0
      /\ sync'[s].page = <<>> /\ sync'[s].more
      /\ sync'[s].left = sync[s].left \ {sync'[s].scope}
      /\ sync'[s].failed = sync[s].failed
  BY NextScopeRow DEF IInv
<1>2. sync[s].pc = "next" /\ UNCHANGED <<sourceVars, storeVars, due, alone>>
  BY DEF NextScope
<1>3. Busy(s) /\ Busy(s)'
  BY <1>1, <1>2 DEF Busy
<1>4. /\ SourceOK' /\ AloneIsAlone' /\ DueOK(s)'
      /\ \A t \in Syncs : t # s => SyncOK(t)'
  BY <1>1, <1>2, <1>3, OthersKeep
<1>5. StoreBehind'
  BY <1>2 DEF IInv, StoreBehind, sourceVars, storeVars
<1>6. PageOK(s)' /\ RecordsLast(s)'
  BY <1>1 DEF PageOK, RecordsLast
<1>7. ASSUME NEW d \in due[s], Covered(s, d) PROVE Covered(s, d)'
  <2>1. d \in Docs /\ Key(d)' > 0
    BY <1>2, IngestionAssumption DEF IInv, SyncOK, DueOK, TypeOK, Key, sourceVars
  <2>2. CASE ScopeOf[d] = sync'[s].scope
    BY <1>1, <2>1, <2>2 DEF Covered, StillAhead
  <2>3. CASE ScopeOf[d] # sync'[s].scope
    BY <1>1, <1>2, <1>7, <2>3 DEF Covered, StillAhead, UpToDate, Moves, sourceVars, storeVars
  <2> QED BY <2>2, <2>3
<1>8. CoveredOK(s)'
  BY <1>2, <1>3, <1>7 DEF IInv, SyncOK, CoveredOK, sourceVars
<1> QED BY <1>1, <1>4, <1>5, <1>6, <1>8 DEF IInv, SyncOK

LEMMA LoseScopesKeeps ==
    ASSUME IInv, NEW s \in Syncs, NEW lost \in SUBSET sync[s].left,
           LoseScopes(s, lost)
    PROVE  IInv'
<1>1. /\ TypeOK' /\ Moves(s)
      /\ sync'[s].pc = "next" /\ sync'[s].page = sync[s].page
      /\ sync'[s].left \cup sync'[s].failed = sync[s].left \cup sync[s].failed
  BY LoseScopesRow DEF IInv
<1>2. sync[s].pc = "next" /\ UNCHANGED <<sourceVars, storeVars, due, alone>>
  BY DEF LoseScopes
<1>3. Busy(s) /\ Busy(s)'
  BY <1>1, <1>2 DEF Busy
<1>4. /\ SourceOK' /\ AloneIsAlone' /\ DueOK(s)'
      /\ \A t \in Syncs : t # s => SyncOK(t)'
  BY <1>1, <1>2, <1>3, OthersKeep
<1>5. StoreBehind'
  BY <1>2 DEF IInv, StoreBehind, sourceVars, storeVars
<1>6. PageOK(s)' /\ RecordsLast(s)'
  BY <1>1, <1>2, <1>3 DEF IInv, SyncOK, PageOK, RecordsLast, sourceVars, storeVars
<1>7. ASSUME NEW d \in due[s], Covered(s, d) PROVE Covered(s, d)'
  BY <1>1, <1>2, <1>7 DEF Covered, StillAhead, UpToDate, Moves, sourceVars, storeVars
<1>8. CoveredOK(s)'
  BY <1>2, <1>3, <1>7 DEF IInv, SyncOK, CoveredOK, sourceVars
<1> QED BY <1>1, <1>4, <1>5, <1>6, <1>8 DEF IInv, SyncOK

\* A page that is fetched takes over what was ahead of the sync.
LEMMA FetchPageKeeps ==
    ASSUME IInv, NEW s \in Syncs, FetchPage(s)
    PROVE  IInv'
<1>1. PICK seq, page :
         /\ TypeOK' /\ Moves(s)
         /\ seq = Remaining(sync[s]) /\ page = TakePage(seq)
         /\ sync'[s].pc = "read" /\ sync'[s].page = page
         /\ sync'[s].more = GoesOn(page, seq)
         /\ sync'[s].after = IF page = <<>> THEN sync[s].after ELSE LastKey(page)
         /\ sync'[s].scope = sync[s].scope /\ sync'[s].left = sync[s].left
         /\ sync'[s].failed = sync[s].failed
  BY FetchPageRow DEF IInv
<1>2. /\ sync[s].pc = "read" /\ sync[s].page = <<>> /\ sync[s].more
      /\ UNCHANGED <<sourceVars, storeVars, due, alone>>
  BY DEF FetchPage
<1>3. Busy(s) /\ Busy(s)'
  BY <1>1, <1>2 DEF Busy
<1>4. /\ SourceOK' /\ AloneIsAlone' /\ DueOK(s)'
      /\ \A t \in Syncs : t # s => SyncOK(t)'
  BY <1>1, <1>2, <1>3, OthersKeep
<1>5. StoreBehind'
  BY <1>2 DEF IInv, StoreBehind, sourceVars, storeVars
<1>6. /\ \A i \in DOMAIN page : page[i].doc \in Live /\ page[i].stamp = stamp[page[i].doc]
      /\ \A i, j \in DOMAIN page : page[i].doc = page[j].doc => i = j
      /\ paging # "offset" =>
           \A d \in Selected(sync[s].scope, sync[s].since) : Key(d) > sync[s].after =>
              \/ \E i \in DOMAIN page : page[i].doc = d
              \/ GoesOn(page, seq) /\ page # <<>> /\ LastKey(page) < Key(d)
  <2> DEFINE q == Remaining(sync[s])
             p == TakePage(q)
  <2>1. TypeOK /\ SourceOK /\ q = seq /\ p = page
    BY <1>1 DEF IInv
  <2>2. /\ \A i \in DOMAIN p : p[i].doc \in Live /\ p[i].stamp = stamp[p[i].doc]
        /\ \A i, j \in DOMAIN p : p[i].doc = p[j].doc => i = j
        /\ paging # "offset" =>
             \A d \in Selected(sync[s].scope, sync[s].since) : Key(d) > sync[s].after =>
                \/ \E i \in DOMAIN p : p[i].doc = d
                \/ GoesOn(p, q) /\ p # <<>> /\ LastKey(p) < Key(d)
    BY <2>1, PageFacts
  <2> HIDE DEF p, q
  <2> QED BY <2>1, <2>2
<1>7. PageOK(s)' /\ RecordsLast(s)'
  <2>1. ASSUME NEW i \in DOMAIN page
        PROVE  /\ page[i].stamp <= clock
               /\ page[i].stamp = stamp[page[i].doc]
               /\ stamp[page[i].doc] <= stamp[page[i].doc]
               /\ store[page[i].doc].stamp <= page[i].stamp
               /\ \A j \in DOMAIN page : page[j].doc = page[i].doc => j = i
    BY <1>6 DEF IInv, SourceOK, StoreBehind, Live, TypeOK, Stamps
  <2>2. PageOK(s)'
    BY <1>1, <1>2, <2>1 DEF PageOK, sourceVars, storeVars
  <2> QED BY <1>1, <2>2 DEF RecordsLast
<1>8. ASSUME paging # "offset", NEW d \in due[s], Covered(s, d) PROVE Covered(s, d)'
  <2>1. Key(d)' = Key(d)
    BY <1>2 DEF Key, sourceVars
  <2>2. CASE StillAhead(s, d)
    <3>1. Key(d) > sync[s].after /\ ScopeOf[d] = sync[s].scope
      BY <1>2, <2>2 DEF StillAhead
    <3>2. d \in Selected(sync[s].scope, sync[s].since)
      BY <3>1 DEF Selected, IInv, SyncOK, DueOK, TypeOK
    <3>3. StillAhead(s, d)'
      BY <1>1, <1>6, <1>8, <2>1, <3>1, <3>2 DEF StillAhead
    <3> QED BY <3>3 DEF Covered
  <2>3. CASE ~StillAhead(s, d)
    BY <1>1, <1>2, <1>8, <2>3 DEF Covered, UpToDate, Moves, sourceVars, storeVars
  <2> QED BY <2>2, <2>3
<1>9. CoveredOK(s)'
  BY <1>2, <1>3, <1>8 DEF IInv, SyncOK, CoveredOK, sourceVars
<1> QED BY <1>1, <1>4, <1>5, <1>7, <1>9 DEF IInv, SyncOK

\* The record that is stored is the current version of its document when it was due.
LEMMA StoreRecordKeeps ==
    ASSUME IInv, NEW s \in Syncs, StoreRecord(s)
    PROVE  IInv'
<1>1. PICK r \in Items :
         /\ TypeOK' /\ Moves(s)
         /\ sync[s].page # <<>> /\ r = sync[s].page[1]
         /\ store'[r.doc].stamp = r.stamp
         /\ store'[r.doc].tag = IF sync[s].admin THEN "instance" ELSE "untagged"
         /\ \A d \in Docs : d # r.doc => store'[d] = store[d]
         /\ sync[s].pc = "read" /\ sync'[s].pc = "read"
         /\ sync'[s].page = Tail(sync[s].page)
         /\ sync'[s].more = sync[s].more /\ sync'[s].after = sync[s].after
         /\ sync'[s].scope = sync[s].scope /\ sync'[s].left = sync[s].left
         /\ sync'[s].failed = sync[s].failed
  BY StoreRecordRow DEF IInv
<1>2. UNCHANGED <<sourceVars, due, alone>>
  BY DEF StoreRecord
<1>3. Busy(s) /\ Busy(s)'
  BY <1>1 DEF Busy
<1>4. /\ SourceOK' /\ AloneIsAlone' /\ DueOK(s)'
      /\ \A t \in Syncs : t # s => SyncOK(t)'
  BY <1>1, <1>2, <1>3, OthersKeep
<1> DEFINE page == sync[s].page
           rest == sync'[s].page
<1>5. /\ page \in Seq(Items) /\ page # <<>> /\ rest = Tail(page) /\ r = page[1]
      /\ \A i \in DOMAIN page : page[i].doc \in Docs /\ page[i].stamp \in Nat
  BY <1>1, PageTyped DEF IInv
<1>6. PageOK(s)
  BY DEF IInv, SyncOK
<1> HIDE DEF page, rest
<1>7. /\ 1 \in DOMAIN page
      /\ \A i \in DOMAIN rest : rest[i] = page[i + 1] /\ i + 1 \in DOMAIN page /\ i + 1 # 1
      /\ \A i \in DOMAIN page : i # 1 => i - 1 \in DOMAIN rest /\ rest[i - 1] = page[i]
      /\ DOMAIN rest \subseteq Nat
  BY <1>5
<1>8. /\ r.doc \in Docs /\ r.stamp <= clock
      /\ stamp[r.doc] > 0 => r.stamp <= stamp[r.doc]
      /\ r.doc \in due[s] => r.stamp = stamp[r.doc]
      /\ \A i \in DOMAIN rest : rest[i].doc # r.doc
  BY <1>5, <1>6, <1>7 DEF PageOK, page
<1>9. StoreBehind'
  <2>1. ASSUME NEW d \in Docs
        PROVE  /\ store'[d].stamp <= clock'
               /\ stamp'[d] > 0 => store'[d].stamp <= stamp'[d]
    <3>1. CASE d = r.doc
      BY <1>1, <1>2, <1>8, <3>1 DEF sourceVars
    <3>2. CASE d # r.doc
      BY <1>1, <1>2, <3>2 DEF IInv, StoreBehind, sourceVars
    <3> QED BY <3>1, <3>2
  <2> QED BY <2>1 DEF StoreBehind
<1>10. PageOK(s)'
  <2>1. ASSUME NEW i \in DOMAIN rest
        PROVE  /\ rest[i].stamp <= clock
               /\ stamp[rest[i].doc] > 0 => rest[i].stamp <= stamp[rest[i].doc]
               /\ rest[i].doc \in due[s] => rest[i].stamp = stamp[rest[i].doc]
               /\ Busy(s) /\ alone[s] => store'[rest[i].doc].stamp <= rest[i].stamp
               /\ \A j \in DOMAIN rest : rest[j].doc = rest[i].doc => j = i
    <3>1. i + 1 \in DOMAIN page /\ rest[i] = page[i + 1] /\ rest[i].doc # r.doc
      BY <1>7, <1>8
    <3>2. store'[rest[i].doc] = store[rest[i].doc]
      BY <1>1, <1>5, <3>1
    <3>3. ASSUME NEW j \in DOMAIN rest, rest[j].doc = rest[i].doc PROVE j = i
      <4>1. j + 1 \in DOMAIN page /\ page[j + 1].doc = page[i + 1].doc
        BY <1>7, <3>1, <3>3
      <4>2. j + 1 = i + 1
        BY <1>6, <3>1, <4>1 DEF PageOK, page
      <4> QED BY <1>7, <4>2
    <3> QED BY <1>6, <3>1, <3>2, <3>3 DEF PageOK, page
  <2> QED BY <1>2, <1>3, <2>1 DEF PageOK, sourceVars, rest
<1>11. RecordsLast(s)'
  BY <1>1 DEF RecordsLast
<1>12. ASSUME NEW d \in due[s], Covered(s, d) PROVE Covered(s, d)'
  <2>0. d \in Docs /\ Key(d)' = Key(d)
    BY <1>2 DEF IInv, TypeOK, Key, sourceVars
  <2>1. CASE d = r.doc
    BY <1>1, <1>2, <1>8, <2>1 DEF Covered, UpToDate, Moves, sourceVars
  <2>2. CASE d # r.doc
    <3>1. UpToDate(s, d) => UpToDate(s, d)'
      BY <1>1, <1>2, <2>0, <2>2 DEF UpToDate, Moves, sourceVars
    <3>2. StillAhead(s, d) => StillAhead(s, d)'
      <4>1. ASSUME NEW i \in DOMAIN page, page[i].doc = d
            PROVE  \E j \in DOMAIN rest : rest[j].doc = d
        BY <1>5, <1>7, <2>2, <4>1
      <4> QED BY <1>1, <2>0, <4>1 DEF StillAhead, page, rest
    <3> QED BY <1>1, <1>12, <3>1, <3>2 DEF Covered
  <2> QED BY <2>1, <2>2
<1>13. CoveredOK(s)'
  BY <1>2, <1>3, <1>12 DEF IInv, SyncOK, CoveredOK, sourceVars
<1> QED BY <1>1, <1>4, <1>9, <1>10, <1>11, <1>13 DEF IInv, SyncOK

\* A scope that ends has nothing ahead, or has failed.
LEMMA ScopeEndsKeeps ==
    ASSUME IInv, NEW s \in Syncs, ScopeFails(s) \/ ScopeDone(s) \/ NothingLeft(s)
    PROVE  IInv'
<1>1. /\ TypeOK' /\ Moves(s)
      /\ sync'[s].pc = IF sync[s].left = {} THEN "record" ELSE "next"
      /\ sync'[s].page \in {sync[s].page, <<>>}
      /\ sync'[s].left = sync[s].left
      /\ sync[s].failed \subseteq sync'[s].failed
      /\ ScopeFails(s) => sync[s].scope \in sync'[s].failed
  BY ScopeEndsRow DEF IInv
<1>2. /\ UNCHANGED <<sourceVars, storeVars, due, alone>>
      /\ sync[s].pc \in {"read", "next"}
      /\ sync[s].pc = "read" => ScopeFails(s) \/ (sync[s].page = <<>> /\ ~sync[s].more)
  BY DEF ScopeFails, ScopeDone, NothingLeft
<1>3. Busy(s) /\ Busy(s)'
  BY <1>1, <1>2 DEF Busy
<1>4. /\ SourceOK' /\ AloneIsAlone' /\ DueOK(s)'
      /\ \A t \in Syncs : t # s => SyncOK(t)'
  BY <1>1, <1>2, <1>3, OthersKeep
<1>5. StoreBehind'
  BY <1>2 DEF IInv, StoreBehind, sourceVars, storeVars
<1>6. PageOK(s)'
  <2>1. CASE sync'[s].page = <<>>
    BY <2>1 DEF PageOK
  <2>2. CASE sync'[s].page = sync[s].page
    BY <1>2, <1>3, <2>2 DEF IInv, SyncOK, PageOK, sourceVars, storeVars
  <2> QED BY <1>1, <2>1, <2>2
<1>7. RecordsLast(s)'
  BY <1>1 DEF RecordsLast
<1>8. ASSUME NEW d \in due[s], Covered(s, d) PROVE Covered(s, d)'
  <2>1. StillAhead(s, d) => ScopeOf[d] \in sync'[s].failed
    BY <1>1, <1>2 DEF StillAhead
  <2> QED BY <1>1, <1>2, <1>8, <2>1 DEF Covered, UpToDate, Moves, sourceVars, storeVars
<1>9. CoveredOK(s)'
  BY <1>2, <1>3, <1>8 DEF IInv, SyncOK, CoveredOK, sourceVars
<1> QED BY <1>1, <1>4, <1>5, <1>6, <1>7, <1>9 DEF IInv, SyncOK

\* A sync that ends leaves nothing due.
LEMMA EndKeeps ==
    ASSUME IInv, Restart \/ \E s \in Syncs : Answer(s)
    PROVE  IInv'
<1>1. TypeOK' /\ UNCHANGED <<sourceVars, storeVars>>
  BY EndTyped DEF IInv, Restart, Answer
<1>2. \A s \in Syncs : \/ sync'[s] = NoSync /\ due'[s] = {}
                       \/ sync'[s] = sync[s] /\ due'[s] = due[s] /\ alone'[s] = alone[s]
  BY DEF Restart, Answer, IInv, TypeOK
<1>3. NoSync.pc = "idle" /\ NoSync.page = <<>>
  BY DEF NoSync
<1>4. SourceOK' /\ StoreBehind'
  BY <1>1 DEF IInv, SourceOK, StoreBehind, sourceVars, storeVars
<1>5. AloneIsAlone'
  BY <1>2, <1>3 DEF IInv, AloneIsAlone, Busy
<1>6. ASSUME NEW s \in Syncs PROVE SyncOK(s)'
  <2>1. CASE sync'[s] = NoSync /\ due'[s] = {}
    BY <1>3, <2>1 DEF SyncOK, PageOK, DueOK, CoveredOK, RecordsLast
  <2>2. CASE sync'[s] = sync[s] /\ due'[s] = due[s] /\ alone'[s] = alone[s]
    <3>1. PageOK(s) /\ DueOK(s) /\ CoveredOK(s) /\ RecordsLast(s)
      BY DEF IInv, SyncOK
    <3>2. PageOK(s)' /\ DueOK(s)' /\ RecordsLast(s)'
      BY <1>1, <2>2, <3>1 DEF PageOK, DueOK, RecordsLast, Busy, sourceVars, storeVars
    <3>3. CoveredOK(s)'
      BY <1>1, <2>2, <3>1
         DEF CoveredOK, Covered, StillAhead, UpToDate, Key, Busy, sourceVars, storeVars
    <3> QED BY <3>2, <3>3 DEF SyncOK
  <2> QED BY <1>2, <2>1, <2>2
<1> QED BY <1>1, <1>4, <1>5, <1>6 DEF IInv

LEMMA StepKeeps ==
    ASSUME IInv, [Next]_vars
    PROVE  IInv'
<1>1. CASE UNCHANGED vars
  BY <1>1 DEF vars, IInv, TypeOK, SourceOK, StoreBehind, AloneIsAlone, SyncOK, PageOK, DueOK,
              CoveredOK, Covered, StillAhead, UpToDate, RecordsLast, Key, Busy
<1>2. ASSUME NEW d \in Docs, EditAtSource(d) \/ DeleteAtSource(d) PROVE IInv'
  BY <1>2, SourceStepKeeps
<1>3. ASSUME NEW s \in Syncs, StartInstanceSync(s) \/ StartDirectSync(s) PROVE IInv'
  <2>1. PICK r \in SyncRecords :
           /\ Begin(s, r)
           /\ r.pc \in {"next", "record"} /\ r.page = <<>>
           /\ r.pc = "record" => r.left = {}
    BY <1>3, StartRows
  <2> QED BY <2>1, BeginTyped, BeginKeeps DEF IInv
<1>4. ASSUME NEW s \in Syncs,
             \/ NextScope(s) \/ FetchPage(s) \/ StoreRecord(s)
             \/ CannotConnect(s) \/ ConnectionRaises(s)
             \/ ScopeFails(s) \/ ScopeDone(s) \/ NothingLeft(s)
      PROVE  IInv'
  BY <1>4, NextScopeKeeps, FetchPageKeeps, StoreRecordKeeps, LossesAre,
     LoseScopesKeeps, ScopeEndsKeeps
<1>5. CASE Restart \/ \E s \in Syncs : Answer(s)
  BY <1>5, EndKeeps
<1> QED BY <1>1, <1>2, <1>3, <1>4, <1>5 DEF Next, Step

\* When a sync that ran alone is about to answer, each document of a scope that did not
\* fail, untouched at the source meanwhile, is stored in its current version with the
\* tag of the sync: whatever the page size and the cursor, however the other documents
\* are edited between two pages, and whichever other scopes fail (trigger_sync, run and
\* the page loops of the Jira, Confluence and SharePoint clients).
THEOREM ScopesComplete == Spec => []CleanScopesAreComplete
<1>1. IInv => CleanScopesAreComplete
  <2> SUFFICES ASSUME IInv, NEW s \in Syncs, sync[s].pc = "record", alone[s],
                      paging # "offset", NEW d \in due[s], ScopeOf[d] \notin sync[s].failed
               PROVE  UpToDate(s, d)
    BY DEF CleanScopesAreComplete
  <2>1. CoveredOK(s) /\ RecordsLast(s) /\ Busy(s)
    BY DEF IInv, SyncOK, Busy
  <2> QED BY <2>1 DEF CoveredOK, Covered, StillAhead, RecordsLast
<1>2. IInv /\ [Next]_vars => IInv'
  BY StepKeeps
<1> QED BY <1>1, <1>2, InitIInv, PTL DEF Spec

\* A sync that runs alone never puts an older text over a newer one: the version on its
\* page is at least as new as the row, whatever happens at the source after the page
\* was fetched (VectorStore.upsert_document_with_chunks).
THEOREM NoOlderText == Spec => OlderTextOnlyByOverlap
<1>1. ASSUME IInv, [Next]_vars
      PROVE  [\A s \in Syncs : StoreRecord(s) /\ alone[s] =>
                 \A d \in Docs : store'[d].stamp >= store[d].stamp]_vars
  <2> SUFFICES ASSUME NEW s \in Syncs, StoreRecord(s), alone[s], NEW d \in Docs
               PROVE  store'[d].stamp >= store[d].stamp
    OBVIOUS
  <2>1. PICK r \in Items :
           /\ sync[s].pc = "read" /\ sync[s].page # <<>> /\ r = sync[s].page[1]
           /\ store'[r.doc].stamp = r.stamp
           /\ \A e \in Docs : e # r.doc => store'[e] = store[e]
    BY <1>1, StoreRecordRow DEF IInv
  <2>2. 1 \in DOMAIN sync[s].page
    BY <1>1, <2>1, PageTyped DEF IInv
  <2>3. PageOK(s) /\ Busy(s)
    BY <1>1, <2>1 DEF IInv, SyncOK, Busy
  <2>4. store[r.doc].stamp <= r.stamp
    BY <2>1, <2>2, <2>3 DEF PageOK
  <2>5. store[d].stamp \in Nat /\ r.stamp \in Nat
    BY <1>1 DEF IInv, TypeOK, Stamps, Items
  <2> QED BY <2>1, <2>4, <2>5
<1>2. IInv /\ [Next]_vars => IInv'
  BY StepKeeps
<1> QED BY <1>1, <1>2, InitIInv, PTL DEF Spec, OlderTextOnlyByOverlap
=============================================================================
