------------------------- MODULE IngestCheckProofs --------------------------
(***************************************************************************)
(* Proofs about IngestCheck, for any statements of the account and any      *)
(* number of mappings and confirmations in flight.                         *)
(***************************************************************************)
EXTENDS IngestCheck, TLAPS

Verdicts == [checksum : {"none", "ties", "fails"}, ack : BOOLEAN]

\* What a request or worker may hold.  ConfirmationsStick needs to know that a
\* confirmation writes its confirmation: only a mapping can take one back.
Order(x) ==
    /\ x.op = "rows" => x.new \in {"ties", "fails"} /\ x.doc \in Statements
    /\ x.op \in {"save", "confirm"} =>
         /\ x.doc \in Statements /\ x.left \subseteq Statements /\ x.patch \in Verdicts
         /\ x.step = "write" => x.prev \in Verdicts
    /\ x.op = "confirm" => x.patch.ack
    /\ x.op = "save" => x.left = {}

IngestInv ==
    /\ meta \in [Statements -> Verdicts]
    /\ desk = [j \in Desks |-> desk[j]]
    /\ \A j \in Desks : Order(desk[j])

\* A desk that takes up x.
LEMMA DeskKeeps ==
    ASSUME IngestInv, NEW j \in Desks, NEW x, Order(x), desk' = [desk EXCEPT ![j] = x],
           meta' \in [Statements -> Verdicts]
    PROVE  IngestInv'
<1>1. \A k \in Desks : desk'[k] = IF k = j THEN x ELSE desk[k]
  BY DEF IngestInv
<1>2. \A k \in Desks : Order(desk'[k])
  BY <1>1 DEF IngestInv
<1>3. desk' = [k \in Desks |-> desk'[k]]
  BY DEF IngestInv
<1> QED BY <1>2, <1>3 DEF IngestInv, Order

\* A desk that has nothing to do.
LEMMA FreeIsInOrder == Order(Free)
  BY DEF Order, Free

\* Two verdicts merge into one.
LEMMA MergedVerdict ==
    ASSUME NEW prev \in Verdicts, NEW patch \in Verdicts
    PROVE  Merged(prev, patch) \in Verdicts
  BY DEF Merged, Verdicts

\* Every step of a request or worker keeps its orders.
LEMMA NextIngestInv == IngestInv /\ [IngestNext]_ingestVars => IngestInv'
<1> SUFFICES ASSUME IngestInv, [IngestNext]_ingestVars PROVE IngestInv'
  OBVIOUS
<1>0. meta \in [Statements -> Verdicts] /\ \A j \in Desks : Order(desk[j])
  BY DEF IngestInv
<1>1. ASSUME NEW j \in Desks, desk' = [desk EXCEPT ![j] = Free], meta' = meta PROVE IngestInv'
  BY <1>0, <1>1, DeskKeeps, FreeIsInOrder
<1>2. ASSUME NEW j \in Desks, NEW d \in Statements, NEW x \in {"ties", "fails"},
             NEW byHand \in BOOLEAN, BeginMapping(j, d, x, byHand)
      PROVE  IngestInv'
  <2> DEFINE y == [op |-> "rows", doc |-> d, new |-> x, byHand |-> byHand]
  <2>1. desk' = [desk EXCEPT ![j] = y] /\ meta' = meta /\ Order(y)
    BY <1>2 DEF BeginMapping, Order
  <2> HIDE DEF y
  <2> QED BY <1>0, <2>1, DeskKeeps
<1>3. ASSUME NEW j \in Desks, StoreRows(j) \/ SkipRows(j) PROVE IngestInv'
  <2> DEFINE p == [checksum |-> desk[j].new, ack |-> FALSE]
             y == [op |-> "save", step |-> "read", doc |-> desk[j].doc, left |-> {}, patch |-> p]
  <2>1. desk[j].op = "rows" /\ desk' = [desk EXCEPT ![j] = y] /\ meta' = meta
    BY <1>3 DEF StoreRows, SkipRows, Save
  <2>2. p \in Verdicts /\ desk[j].doc \in Statements
    BY <1>0, <2>1 DEF Order, Verdicts
  <2> HIDE DEF p
  <2>3. Order(y)
    BY <2>2 DEF Order
  <2> HIDE DEF y
  <2> QED BY <1>0, <2>1, <2>3, DeskKeeps
<1>4. ASSUME NEW j \in Desks, MappingFails(j) \/ MergeFails(j) PROVE IngestInv'
  BY <1>1, <1>4 DEF MappingFails, MergeFails
<1>5. ASSUME NEW j \in Desks, ReadMeta(j) PROVE IngestInv'
  <2> DEFINE y == [op |-> desk[j].op, step |-> "write", doc |-> desk[j].doc,
                   patch |-> desk[j].patch, left |-> desk[j].left, prev |-> meta[desk[j].doc]]
  <2>1. desk' = [desk EXCEPT ![j] = y] /\ meta' = meta /\ desk[j].op \in {"save", "confirm"}
    BY <1>5 DEF ReadMeta, IngestInv
  <2>2. Order(desk[j])
    BY <1>0
  <2>3. Order(y)
    BY <1>0, <2>1, <2>2 DEF Order
  <2> HIDE DEF y
  <2> QED BY <1>0, <2>1, <2>3, DeskKeeps
<1>6. ASSUME NEW j \in Desks, WriteMeta(j) PROVE IngestInv'
  <2> DEFINE d == desk[j].doc
             w == Merged(desk[j].prev, desk[j].patch)
  <2>1. /\ desk[j].op \in {"save", "confirm"} /\ desk[j].step = "write"
        /\ meta' = [meta EXCEPT ![d] = w]
    BY <1>6 DEF WriteMeta
  <2>2. Order(desk[j])
    BY <1>0
  <2>3. w \in Verdicts /\ d \in Statements
    BY <2>1, <2>2, MergedVerdict DEF Order
  <2> HIDE DEF w, d
  <2>4. meta' \in [Statements -> Verdicts]
    BY <1>0, <2>1, <2>3
  <2>5. CASE desk[j].left = {}
    <3>1. desk' = [desk EXCEPT ![j] = Free]
      BY <1>6, <2>5 DEF WriteMeta
    <3> QED BY <2>4, <3>1, DeskKeeps, FreeIsInOrder
  <2>6. CASE desk[j].left # {}
    <3>1. PICK next \in desk[j].left :
            desk' = [desk EXCEPT ![j] =
               [op |-> "confirm", step |-> "read", doc |-> next,
                patch |-> desk[j].patch, left |-> desk[j].left \ {next}]]
      BY <1>6, <2>6 DEF WriteMeta
    <3> DEFINE y == [op |-> "confirm", step |-> "read", doc |-> next,
                     patch |-> desk[j].patch, left |-> desk[j].left \ {next}]
    <3>2. Order(y)
      BY <2>1, <2>2 DEF Order
    <3>3. desk' = [desk EXCEPT ![j] = y]
      BY <3>1
    <3> HIDE DEF y
    <3> QED BY <2>4, <3>2, <3>3, DeskKeeps
  <2> QED BY <2>5, <2>6
<1>7. ASSUME NEW j \in Desks, BeginConfirm(j) PROVE IngestInv'
  <2>1. PICK first \in Statements : desk' = [desk EXCEPT ![j] =
            [op |-> "confirm", step |-> "read", doc |-> first,
             left |-> Statements \ {first}, patch |-> [checksum |-> "none", ack |-> TRUE]]]
    BY <1>7 DEF BeginConfirm
  <2> DEFINE y == [op |-> "confirm", step |-> "read", doc |-> first,
                   left |-> Statements \ {first}, patch |-> [checksum |-> "none", ack |-> TRUE]]
  <2>2. Order(y) /\ desk' = [desk EXCEPT ![j] = y] /\ meta' = meta
    BY <1>7, <2>1 DEF Order, Verdicts, BeginConfirm
  <2> HIDE DEF y
  <2> QED BY <1>0, <2>2, DeskKeeps
<1>8. CASE UNCHANGED ingestVars
  BY <1>8 DEF ingestVars, IngestInv, Order
<1> QED BY <1>2, <1>3, <1>4, <1>5, <1>6, <1>7, <1>8 DEF IngestNext

\* However many mappings and confirmations meet, a stored confirmation is taken
\* back only by the verdict of a mapping that read the document before it was
\* given: ingestMeta is merged by reading and writing it back (ingestMeta.ts).
THEOREM ConfirmationsStay == IngestSpec => ConfirmationsStick
<1> DEFINE Sticks == \A d \in Statements : meta[d].ack /\ ~meta'[d].ack =>
              \E j \in Desks : /\ MappingOf(j, d) /\ desk[j].op = "save"
                               /\ desk[j].step = "write" /\ ~desk[j].prev.ack
<1>1. IngestInit => IngestInv
  BY FreeIsInOrder DEF IngestInit, IngestInv, Unchecked, Verdicts
<1>2. ASSUME IngestInv, [IngestNext]_ingestVars PROVE Sticks
  <2> SUFFICES ASSUME NEW d \in Statements, meta[d].ack, ~meta'[d].ack
               PROVE  \E j \in Desks : /\ MappingOf(j, d) /\ desk[j].op = "save"
                                       /\ desk[j].step = "write" /\ ~desk[j].prev.ack
    OBVIOUS
  <2>1. meta' # meta
    OBVIOUS
  <2>2. PICK j \in Desks : WriteMeta(j)
    BY <1>2, <2>1 DEF IngestNext, BeginMapping, StoreRows, SkipRows, MappingFails, ReadMeta,
       MergeFails, BeginConfirm, ingestVars
  <2>3. /\ desk[j].op \in {"save", "confirm"} /\ desk[j].step = "write"
        /\ meta' = [meta EXCEPT ![desk[j].doc] = Merged(desk[j].prev, desk[j].patch)]
    BY <2>2 DEF WriteMeta
  <2>4. desk[j].doc = d
    BY <2>3
  <2>5. meta'[d] = Merged(desk[j].prev, desk[j].patch)
    BY <1>2, <2>3, <2>4 DEF IngestInv
  <2>6. ~(desk[j].prev.ack \/ desk[j].patch.ack)
    <3>1. Merged(desk[j].prev, desk[j].patch).ack = (desk[j].prev.ack \/ desk[j].patch.ack)
      BY DEF Merged
    <3> QED BY <2>5, <3>1
  <2>7. Order(desk[j])
    BY <1>2 DEF IngestInv
  <2>8. desk[j].op = "save"
    BY <2>3, <2>6, <2>7 DEF Order
  <2> QED BY <2>3, <2>4, <2>6, <2>8 DEF MappingOf
<1>3. IngestInv /\ [IngestNext]_ingestVars => [Sticks]_ingestVars
  BY <1>2
<1>4. IngestInv /\ [IngestNext]_ingestVars => IngestInv'
  BY NextIngestInv
<1> QED BY <1>1, <1>3, <1>4, PTL DEF IngestSpec, ConfirmationsStick

----------------------------------------------------------------------------
(* FailedExtractsPauseMatching speaks of statements at rest.  What a step  *)
(* preserves is about the mapping under way as well: the verdict it is     *)
(* about to store is the one on the rows it has stored.                    *)

Saving(j, d) == desk[j].op = "save" /\ desk[j].doc = d

IngestTyped ==
    /\ extract \in [Statements -> {"none", "ties", "fails"}]
    /\ parsed \in [Statements -> BOOLEAN] /\ astray \in [Statements -> BOOLEAN]

\* A mapping always brings a verdict and a confirmation never does.
PatchAt(j) ==
    /\ desk[j].op = "save" => desk[j].patch.checksum # "none"
    /\ desk[j].op = "confirm" => desk[j].patch.checksum = "none"

\* One mapping at a time; a background parse begins on a statement without rows;
\* the verdict on file, or the one about to be filed, is the one on the rows.
Faithful(d) == ~astray[d] =>
    /\ \A j, k \in Desks : MappingOf(j, d) /\ MappingOf(k, d) => j = k
    /\ \A j \in Desks : desk[j].op = "rows" /\ desk[j].doc = d /\ ~desk[j].byHand
                           => extract[d] = "none"
    /\ \A j \in Desks : Saving(j, d) => extract[d] \in {"none", desk[j].patch.checksum}
    /\ (\A j \in Desks : ~Saving(j, d)) => extract[d] \in {"none", meta[d].checksum}

\* A statement with rows has been parsed, or is just being saved.
Heard(d) == extract[d] # "none" => parsed[d] \/ \E j \in Desks : Saving(j, d)

VerdictInv ==
    /\ IngestTyped
    /\ \A j \in Desks : PatchAt(j)
    /\ \A d \in Statements : Faithful(d) /\ Heard(d)

\* An idle desk neither maps nor confirms.
LEMMA FreeIsIdle == Free.op = "idle"
  BY DEF Free

\* What the desks hold after one took up x.
LEMMA DeskAfter ==
    ASSUME IngestInv, NEW j \in Desks, NEW x, desk' = [desk EXCEPT ![j] = x]
    PROVE  desk'[j] = x /\ \A k \in Desks : k # j => desk'[k] = desk[k]
  BY DEF IngestInv

\* A desk that takes up nothing that maps, and had nothing to save.
LEMMA QuietDesk ==
    ASSUME VerdictInv, NEW j \in Desks, \A k \in Desks : k # j => desk'[k] = desk[k],
           desk'[j].op \in {"idle", "confirm"}, PatchAt(j)', desk[j].op # "save",
           extract' = extract, parsed' = parsed, IngestTyped',
           \A d \in Statements : ~astray'[d] => ~astray[d] /\ meta'[d].checksum = meta[d].checksum
    PROVE  VerdictInv'
<1>1. \A k \in Desks : PatchAt(k)'
  BY DEF VerdictInv, PatchAt
<1>2. ASSUME NEW d \in Statements PROVE Faithful(d)' /\ Heard(d)'
  <2>1. \A k \in Desks : Saving(k, d)' <=> Saving(k, d)
    BY DEF Saving
  <2>2. \A k \in Desks : MappingOf(k, d)' => MappingOf(k, d)
    BY DEF MappingOf
  <2>3. Heard(d)'
    BY <2>1 DEF VerdictInv, Heard
  <2>4. ASSUME ~astray'[d] PROVE Faithful(d)'
    <3>1. ~astray[d] /\ meta'[d].checksum = meta[d].checksum
      BY <2>4
    <3>2. \A k \in Desks : Saving(k, d)' => desk'[k] = desk[k]
      BY DEF Saving
    <3>3. \A k \in Desks : desk'[k].op = "rows" => desk'[k] = desk[k]
      OBVIOUS
    <3> QED BY <2>1, <2>2, <3>1, <3>2, <3>3 DEF VerdictInv, Faithful
  <2> QED BY <2>3, <2>4 DEF Faithful
<1> QED BY <1>1, <1>2 DEF VerdictInv

\* A mapping begins: alone, or else the statement goes astray.
LEMMA BeginVerdict ==
    ASSUME IngestInv, VerdictInv, NEW j \in Desks, NEW d \in Statements,
           NEW x \in {"ties", "fails"}, NEW byHand \in BOOLEAN, BeginMapping(j, d, x, byHand)
    PROVE  VerdictInv'
<1> DEFINE y == [op |-> "rows", doc |-> d, new |-> x, byHand |-> byHand]
<1>1. /\ desk[j] = Free /\ (byHand \/ ~parsed[d]) /\ desk' = [desk EXCEPT ![j] = y]
      /\ astray' = [astray EXCEPT ![d] = @ \/ \E k \in Desks : MappingOf(k, d)]
      /\ UNCHANGED <<extract, meta, parsed>>
  BY DEF BeginMapping
<1>2. y.op = "rows" /\ y.doc = d /\ y.byHand = byHand
  OBVIOUS
<1> HIDE DEF y
<1>3. desk'[j] = y /\ \A k \in Desks : k # j => desk'[k] = desk[k]
  BY <1>1, DeskAfter
<1>4. desk[j].op = "idle"
  BY <1>1, FreeIsIdle
<1>5. IngestTyped'
  BY <1>1 DEF VerdictInv, IngestTyped
<1>6. \A k \in Desks : PatchAt(k)'
  BY <1>2, <1>3 DEF VerdictInv, PatchAt
<1>7. ASSUME NEW e \in Statements PROVE Faithful(e)' /\ Heard(e)'
  <2>1. \A k \in Desks : Saving(k, e)' <=> Saving(k, e)
    BY <1>2, <1>3, <1>4 DEF Saving
  <2>2. Heard(e)'
    BY <1>1, <2>1 DEF VerdictInv, Heard
  <2>3. ASSUME ~astray'[e] PROVE Faithful(e)'
    <3>1. ~astray[e] /\ (e = d => \A k \in Desks : ~MappingOf(k, d))
      BY <1>1, <2>3 DEF VerdictInv, IngestTyped
    <3>2. \A k \in Desks : k # j => (MappingOf(k, e)' <=> MappingOf(k, e))
      BY <1>3 DEF MappingOf
    <3>3. MappingOf(j, e)' => e = d
      BY <1>2, <1>3 DEF MappingOf
    <3>4. \A k, l \in Desks : MappingOf(k, e)' /\ MappingOf(l, e)' => k = l
      BY <3>1, <3>2, <3>3 DEF VerdictInv, Faithful
    <3>5. e = d /\ ~byHand => extract[e] = "none"
      BY <1>1, <3>1 DEF VerdictInv, Heard, MappingOf, Saving
    <3>6. \A k \in Desks : desk'[k].op = "rows" /\ desk'[k].doc = e /\ ~desk'[k].byHand
                              => extract'[e] = "none"
      BY <1>1, <1>2, <1>3, <3>1, <3>5 DEF VerdictInv, Faithful
    <3>7. \A k \in Desks : Saving(k, e)' => desk'[k] = desk[k]
      BY <1>2, <1>3 DEF Saving
    <3> QED BY <1>1, <2>1, <3>1, <3>4, <3>6, <3>7 DEF VerdictInv, Faithful
  <2> QED BY <2>2, <2>3 DEF Faithful
<1> QED BY <1>5, <1>6, <1>7 DEF VerdictInv

\* A mapping stores its rows, or skips them, and goes on to file its verdict.
LEMMA StoreVerdict ==
    ASSUME IngestInv, VerdictInv, NEW j \in Desks, StoreRows(j) \/ SkipRows(j)
    PROVE  VerdictInv'
<1> DEFINE d == desk[j].doc
           p == [checksum |-> desk[j].new, ack |-> FALSE]
           y == [op |-> "save", step |-> "read", doc |-> d, left |-> {}, patch |-> p]
<1>1. /\ desk[j].op = "rows" /\ desk' = [desk EXCEPT ![j] = y]
      /\ UNCHANGED <<meta, parsed, astray>>
      /\ \/ extract' = [extract EXCEPT ![d] = desk[j].new]
         \/ extract' = extract /\ ~desk[j].byHand
  BY DEF StoreRows, SkipRows, Save
<1>2. y.op = "save" /\ y.doc = d /\ y.patch.checksum = desk[j].new
  OBVIOUS
<1>3. d \in Statements /\ desk[j].new \in {"ties", "fails"}
  BY <1>1 DEF IngestInv, Order
<1> HIDE DEF y, p
<1>4. desk'[j] = y /\ \A k \in Desks : k # j => desk'[k] = desk[k]
  BY <1>1, DeskAfter
<1> HIDE DEF d
<1>5. IngestTyped'
  BY <1>1, <1>3 DEF VerdictInv, IngestTyped
<1>6. \A k \in Desks : PatchAt(k)'
  BY <1>2, <1>3, <1>4 DEF VerdictInv, PatchAt
<1>7. ASSUME NEW e \in Statements PROVE Faithful(e)' /\ Heard(e)'
  <2>1. desk[j].doc = d
    BY DEF d
  <2>2. \A k \in Desks : MappingOf(k, e)' <=> MappingOf(k, e)
    BY <1>1, <1>2, <1>4, <2>1 DEF MappingOf
  <2>3. \A k \in Desks : k # j => (Saving(k, e)' <=> Saving(k, e))
    BY <1>4 DEF Saving
  <2>4. CASE e = d
    <3>1. Saving(j, e)' /\ MappingOf(j, e)
      BY <1>1, <1>2, <1>4, <2>1, <2>4 DEF Saving, MappingOf
    <3>2. Heard(e)'
      BY <3>1 DEF Heard
    <3>3. ASSUME ~astray'[e] PROVE Faithful(e)'
      <4>1. \A k \in Desks : MappingOf(k, e)' => k = j
        BY <1>1, <2>2, <3>1, <3>3 DEF VerdictInv, Faithful
      <4>2. extract'[e] \in {"none", desk'[j].patch.checksum}
        BY <1>1, <1>2, <1>3, <1>4, <2>1, <2>4, <3>3 DEF VerdictInv, Faithful, IngestTyped
      <4>3. desk'[j].op = "save"
        BY <1>2, <1>4
      <4> QED BY <3>1, <4>1, <4>2, <4>3 DEF Faithful, MappingOf, Saving
    <3> QED BY <3>2, <3>3 DEF Faithful
  <2>5. CASE e # d
    <3>1. extract'[e] = extract[e]
      BY <1>1, <1>3, <2>5 DEF VerdictInv, IngestTyped
    <3>2. ~Saving(j, e)' /\ ~Saving(j, e)
      BY <1>1, <1>2, <1>4, <2>1, <2>5 DEF Saving
    <3>3. Heard(e)'
      BY <1>1, <2>3, <3>1, <3>2 DEF VerdictInv, Heard
    <3>4. ASSUME ~astray'[e] PROVE Faithful(e)'
      <4>1. \A k \in Desks : Saving(k, e)' => Saving(k, e) /\ desk'[k] = desk[k]
        BY <1>4, <2>3, <3>2
      <4>2. \A k \in Desks : desk'[k].op = "rows" => desk'[k] = desk[k]
        BY <1>2, <1>4
      <4>3. (\A k \in Desks : ~Saving(k, e)') => \A k \in Desks : ~Saving(k, e)
        BY <2>3, <3>2
      <4> QED BY <1>1, <2>2, <3>1, <3>4, <4>1, <4>2, <4>3 DEF VerdictInv, Faithful
    <3> QED BY <3>3, <3>4 DEF Faithful
  <2> QED BY <2>4, <2>5
<1> QED BY <1>5, <1>6, <1>7 DEF VerdictInv

\* A merge reads the document.
LEMMA ReadVerdict ==
    ASSUME IngestInv, VerdictInv, NEW j \in Desks, ReadMeta(j)
    PROVE  VerdictInv'
<1> DEFINE y == [op |-> desk[j].op, step |-> "write", doc |-> desk[j].doc,
                 patch |-> desk[j].patch, left |-> desk[j].left, prev |-> meta[desk[j].doc]]
<1>1. /\ desk[j].op \in {"save", "confirm"} /\ desk' = [desk EXCEPT ![j] = y]
      /\ UNCHANGED <<extract, meta, parsed, astray>>
  BY DEF ReadMeta, IngestInv
<1>2. y.op = desk[j].op /\ y.doc = desk[j].doc /\ y.patch = desk[j].patch
  OBVIOUS
<1> HIDE DEF y
<1>3. desk'[j] = y /\ \A k \in Desks : k # j => desk'[k] = desk[k]
  BY <1>1, DeskAfter
<1>4. \A k \in Desks : /\ desk'[k].op = desk[k].op /\ desk'[k].doc = desk[k].doc
                       /\ desk[k].op \in {"save", "confirm"} => desk'[k].patch = desk[k].patch
                       /\ desk[k].op = "rows" => desk'[k] = desk[k]
  BY <1>1, <1>2, <1>3
<1>5. \A k \in Desks, e \in Statements : /\ MappingOf(k, e)' <=> MappingOf(k, e)
                                         /\ Saving(k, e)' <=> Saving(k, e)
  BY <1>4 DEF MappingOf, Saving
<1>6. \A k \in Desks : PatchAt(k)'
  BY <1>4 DEF VerdictInv, PatchAt
<1>7. ASSUME NEW e \in Statements PROVE Faithful(e)' /\ Heard(e)'
  <2>1. Heard(e)'
    BY <1>1, <1>5 DEF VerdictInv, Heard
  <2>2. \A k \in Desks : Saving(k, e) => desk'[k].patch = desk[k].patch
    BY <1>4 DEF Saving
  <2>3. Faithful(e)
    BY DEF VerdictInv
  <2>4. Faithful(e)'
    BY <1>1, <1>4, <1>5, <2>2, <2>3 DEF Faithful
  <2> QED BY <2>1, <2>4
<1>8. IngestTyped'
  BY <1>1 DEF VerdictInv, IngestTyped
<1> QED BY <1>6, <1>7, <1>8 DEF VerdictInv

\* A mapping that has filed its verdict, or failed to, is over.
LEMMA SavedVerdict ==
    ASSUME IngestInv, VerdictInv, NEW j \in Desks, NEW d \in Statements, Saving(j, d),
           desk' = [desk EXCEPT ![j] = Free], extract' = extract,
           parsed' = [parsed EXCEPT ![d] = TRUE], IngestTyped',
           \A e \in Statements : e # d => astray'[e] = astray[e] /\ meta'[e] = meta[e],
           ~astray'[d] => ~astray[d] /\ meta'[d].checksum = desk[j].patch.checksum
    PROVE  VerdictInv'
<1>1. desk'[j] = Free /\ \A k \in Desks : k # j => desk'[k] = desk[k]
  BY DeskAfter
<1>2. desk'[j].op = "idle"
  BY <1>1 DEF Free
<1>3. \A k \in Desks : PatchAt(k)'
  BY <1>1, <1>2 DEF VerdictInv, PatchAt
<1>4. \A k \in Desks, e \in Statements :
         /\ MappingOf(k, e)' <=> MappingOf(k, e) /\ k # j
         /\ Saving(k, e)' <=> Saving(k, e) /\ k # j
  BY <1>1, <1>2 DEF MappingOf, Saving
<1>5. ASSUME NEW e \in Statements PROVE Faithful(e)' /\ Heard(e)'
  <2>1. CASE e = d
    <3>1. parsed'[e]
      BY <2>1 DEF VerdictInv, IngestTyped
    <3>2. ASSUME ~astray'[e] PROVE Faithful(e)'
      <4>1. ~astray[e] /\ MappingOf(j, e)
        BY <2>1, <3>2 DEF Saving, MappingOf
      <4>2. \A k \in Desks : ~MappingOf(k, e)'
        BY <1>4, <4>1 DEF VerdictInv, Faithful
      <4>3. extract'[e] \in {"none", meta'[e].checksum}
        BY <2>1, <3>2, <4>1 DEF VerdictInv, Faithful
      <4>4. \A k \in Desks : ~Saving(k, e)' /\ ~(desk'[k].op = "rows" /\ desk'[k].doc = e)
        BY <4>2 DEF MappingOf, Saving
      <4> QED BY <4>2, <4>3, <4>4 DEF Faithful
    <3> QED BY <3>1, <3>2 DEF Faithful, Heard
  <2>2. CASE e # d
    <3>1. ~MappingOf(j, e) /\ ~Saving(j, e)
      BY <2>2 DEF MappingOf, Saving
    <3>2. parsed'[e] = parsed[e] /\ astray'[e] = astray[e] /\ meta'[e] = meta[e]
      BY <2>2 DEF VerdictInv, IngestTyped
    <3>3. \A k \in Desks : /\ MappingOf(k, e)' <=> MappingOf(k, e)
                           /\ Saving(k, e)' <=> Saving(k, e)
      BY <1>4, <3>1
    <3>4. \A k \in Desks : Saving(k, e) \/ desk'[k].op = "rows" => desk'[k] = desk[k]
      BY <1>1, <1>2, <3>1
    <3>5. Faithful(e) /\ Heard(e)
      BY DEF VerdictInv
    <3>6. Heard(e)'
      BY <3>2, <3>3, <3>5 DEF Heard
    <3>7. Faithful(e)'
      BY <3>2, <3>3, <3>4, <3>5 DEF Faithful
    <3> QED BY <3>6, <3>7
  <2> QED BY <2>1, <2>2
<1> QED BY <1>3, <1>5 DEF VerdictInv

\* A merge writes the document back.
LEMMA WriteVerdict ==
    ASSUME IngestInv, VerdictInv, NEW j \in Desks, WriteMeta(j)
    PROVE  VerdictInv'
<1> DEFINE d == desk[j].doc
           w == Merged(desk[j].prev, desk[j].patch)
<1>1. /\ desk[j].op \in {"save", "confirm"} /\ desk[j].step = "write"
      /\ meta' = [meta EXCEPT ![d] = w]
      /\ astray' = [astray EXCEPT ![d] = @ \/ meta[d] # desk[j].prev]
      /\ parsed' = [parsed EXCEPT ![d] = @ \/ desk[j].op = "save"]
      /\ extract' = extract
  BY DEF WriteMeta
<1>2. /\ d \in Statements /\ meta \in [Statements -> Verdicts]
      /\ desk[j].op = "save" => desk[j].left = {}
  BY <1>1 DEF IngestInv, Order
<1>3. w.checksum = IF desk[j].patch.checksum = "none" THEN desk[j].prev.checksum
                                                      ELSE desk[j].patch.checksum
  BY DEF Merged
<1>4. PatchAt(j) /\ desk[j].doc = d
  BY DEF VerdictInv
<1> HIDE DEF d, w
<1>5. IngestTyped'
  BY <1>1, <1>2 DEF VerdictInv, IngestTyped
<1>6. /\ \A e \in Statements : e # d => astray'[e] = astray[e] /\ meta'[e] = meta[e]
      /\ meta'[d] = w /\ (~astray'[d] => ~astray[d] /\ meta[d] = desk[j].prev)
  BY <1>1, <1>2 DEF VerdictInv, IngestTyped
<1>7. CASE desk[j].op = "save"
  <2>1. Saving(j, d) /\ parsed' = [parsed EXCEPT ![d] = TRUE]
    BY <1>1, <1>2, <1>4, <1>7 DEF Saving, VerdictInv, IngestTyped
  <2>2. desk' = [desk EXCEPT ![j] = Free]
    BY <1>2, <1>7 DEF WriteMeta
  <2>3. ~astray'[d] => ~astray[d] /\ meta'[d].checksum = desk[j].patch.checksum
    BY <1>3, <1>4, <1>6, <1>7 DEF PatchAt
  <2> QED BY <1>1, <1>2, <1>5, <1>6, <2>1, <2>2, <2>3, SavedVerdict
<1>8. CASE desk[j].op = "confirm"
  <2>1. parsed' = parsed
    BY <1>1, <1>2, <1>8 DEF VerdictInv, IngestTyped
  <2>2. \A e \in Statements : ~astray'[e] => ~astray[e] /\ meta'[e].checksum = meta[e].checksum
    BY <1>3, <1>4, <1>6, <1>8 DEF PatchAt
  <2>3. PICK x : /\ desk' = [desk EXCEPT ![j] = x] /\ x.op \in {"idle", "confirm"}
                 /\ x.op = "confirm" => x.patch = desk[j].patch
    <3>1. CASE desk[j].left = {}
      <4>1. desk' = [desk EXCEPT ![j] = Free] /\ Free.op = "idle"
        BY <3>1 DEF WriteMeta, Free
      <4> QED BY <4>1
    <3>2. CASE desk[j].left # {}
      <4>1. PICK next \in desk[j].left : desk' = [desk EXCEPT ![j] =
                [op |-> "confirm", step |-> "read", doc |-> next,
                 patch |-> desk[j].patch, left |-> desk[j].left \ {next}]]
        BY <3>2 DEF WriteMeta
      <4> DEFINE y == [op |-> "confirm", step |-> "read", doc |-> next,
                       patch |-> desk[j].patch, left |-> desk[j].left \ {next}]
      <4>2. desk' = [desk EXCEPT ![j] = y] /\ y.op = "confirm" /\ y.patch = desk[j].patch
        BY <4>1
      <4> HIDE DEF y
      <4> QED BY <4>2
    <3> QED BY <3>1, <3>2
  <2>4. desk'[j] = x /\ \A k \in Desks : k # j => desk'[k] = desk[k]
    BY <2>3, DeskAfter
  <2>5. PatchAt(j)'
    BY <1>4, <1>8, <2>3, <2>4 DEF PatchAt
  <2> QED BY <1>1, <1>5, <1>8, <2>1, <2>2, <2>3, <2>4, <2>5, QuietDesk
<1> QED BY <1>1, <1>7, <1>8

\* A merge that fails: a confirmation stops, a mapping goes on without its verdict.
LEMMA FailedVerdict ==
    ASSUME IngestInv, VerdictInv, NEW j \in Desks, MergeFails(j)
    PROVE  VerdictInv'
<1> DEFINE d == desk[j].doc
<1>1. /\ desk[j].op \in {"save", "confirm"} /\ desk' = [desk EXCEPT ![j] = Free]
      /\ astray' = [astray EXCEPT ![d] = @ \/ desk[j].op = "save"]
      /\ parsed' = [parsed EXCEPT ![d] = @ \/ desk[j].op = "save"]
      /\ extract' = extract /\ meta' = meta
  BY DEF MergeFails
<1>2. d \in Statements
  BY <1>1 DEF IngestInv, Order
<1>3. desk'[j] = Free /\ \A k \in Desks : k # j => desk'[k] = desk[k]
  BY <1>1, DeskAfter
<1>4. IngestTyped'
  BY <1>1, <1>2 DEF VerdictInv, IngestTyped
<1>5. CASE desk[j].op = "save"
  <2>1. Saving(j, d) /\ parsed' = [parsed EXCEPT ![d] = TRUE] /\ astray'[d]
    BY <1>1, <1>2, <1>5 DEF Saving, VerdictInv, IngestTyped
  <2>2. \A e \in Statements : e # d => astray'[e] = astray[e] /\ meta'[e] = meta[e]
    BY <1>1, <1>2 DEF VerdictInv, IngestTyped
  <2> HIDE DEF d
  <2> QED BY <1>1, <1>2, <1>4, <2>1, <2>2, SavedVerdict
<1>6. CASE desk[j].op = "confirm"
  <2>1. parsed' = parsed /\ astray' = astray
    BY <1>1, <1>2, <1>6 DEF VerdictInv, IngestTyped
  <2>2. desk'[j].op = "idle"
    BY <1>3 DEF Free
  <2>3. PatchAt(j)'
    BY <2>2 DEF PatchAt
  <2> QED BY <1>1, <1>3, <1>4, <1>6, <2>1, <2>2, <2>3, QuietDesk
<1> QED BY <1>1, <1>5, <1>6

\* Every step keeps the verdicts faithful.
LEMMA NextVerdict == IngestInv /\ VerdictInv /\ [IngestNext]_ingestVars => VerdictInv'
<1> SUFFICES ASSUME IngestInv, VerdictInv, [IngestNext]_ingestVars PROVE VerdictInv'
  OBVIOUS
<1>1. ASSUME NEW j \in Desks, MappingFails(j) PROVE VerdictInv'
  <2>1. /\ desk[j].op = "rows" /\ desk' = [desk EXCEPT ![j] = Free]
        /\ UNCHANGED <<extract, meta, parsed, astray>>
    BY <1>1 DEF MappingFails
  <2>2. desk'[j].op = "idle" /\ \A k \in Desks : k # j => desk'[k] = desk[k]
    BY <2>1, DeskAfter, FreeIsIdle
  <2>3. IngestTyped' /\ PatchAt(j)'
    BY <2>1, <2>2 DEF VerdictInv, IngestTyped, PatchAt
  <2> QED BY <2>1, <2>2, <2>3, QuietDesk
<1>2. ASSUME NEW j \in Desks, BeginConfirm(j) PROVE VerdictInv'
  <2>1. desk[j] = Free /\ UNCHANGED <<extract, meta, parsed, astray>>
    BY <1>2 DEF BeginConfirm
  <2>2. PICK x : desk' = [desk EXCEPT ![j] = x] /\ x.op = "confirm" /\ x.patch.checksum = "none"
    <3>1. PICK first \in Statements : desk' = [desk EXCEPT ![j] =
              [op |-> "confirm", step |-> "read", doc |-> first,
               left |-> Statements \ {first}, patch |-> [checksum |-> "none", ack |-> TRUE]]]
      BY <1>2 DEF BeginConfirm
    <3> DEFINE y == [op |-> "confirm", step |-> "read", doc |-> first,
                     left |-> Statements \ {first}, patch |-> [checksum |-> "none", ack |-> TRUE]]
    <3>2. desk' = [desk EXCEPT ![j] = y] /\ y.op = "confirm" /\ y.patch.checksum = "none"
      BY <3>1
    <3> HIDE DEF y
    <3> QED BY <3>2
  <2>3. desk'[j] = x /\ \A k \in Desks : k # j => desk'[k] = desk[k]
    BY <2>2, DeskAfter
  <2>4. IngestTyped' /\ PatchAt(j)' /\ desk[j].op = "idle"
    BY <2>1, <2>2, <2>3, FreeIsIdle DEF VerdictInv, IngestTyped, PatchAt
  <2> QED BY <2>1, <2>2, <2>3, <2>4, QuietDesk
<1>3. CASE UNCHANGED ingestVars
  BY <1>3 DEF ingestVars, VerdictInv, IngestTyped, PatchAt, Faithful, Heard, MappingOf, Saving
<1> QED BY <1>1, <1>2, <1>3, BeginVerdict, StoreVerdict, ReadVerdict, WriteVerdict, FailedVerdict
    DEF IngestNext

\* However many parses, mappings and confirmations meet: while matching is open,
\* every statement whose stored rows do not tie has been confirmed - unless two
\* mappings of it met, or a write of its ingestMeta was lost
\* (ingestMeta.ts, autoMapDocument.ts).
THEOREM FailedExtractsBlock == IngestSpec => []FailedExtractsPauseMatching
<1>1. IngestInit => IngestInv /\ VerdictInv
  <2>1. IngestInit => IngestInv
    BY FreeIsInOrder DEF IngestInit, IngestInv, Unchecked, Verdicts
  <2>2. IngestInit => VerdictInv
    BY DEF IngestInit, VerdictInv, IngestTyped, PatchAt, Faithful, Heard, MappingOf, Saving, Free
  <2> QED BY <2>1, <2>2
<1>2. IngestInv /\ VerdictInv /\ [IngestNext]_ingestVars => IngestInv' /\ VerdictInv'
  BY NextIngestInv, NextVerdict
<1>3. VerdictInv /\ IngestInv => FailedExtractsPauseMatching
  <2> SUFFICES ASSUME VerdictInv, IngestInv, MatchingIsOpen, NEW d \in Statements,
                      Settled(d), extract[d] = "fails"
               PROVE  meta[d].ack
    BY DEF FailedExtractsPauseMatching
  <2>1. ~astray[d] /\ \A j \in Desks : ~Saving(j, d)
    BY DEF Settled, MappingOf, Saving
  <2>2. meta[d].checksum = "fails"
    BY <2>1 DEF VerdictInv, Faithful
  <2> QED BY <2>2 DEF MatchingIsOpen, Blocks
<1> QED BY <1>1, <1>2, <1>3, PTL DEF IngestSpec
=============================================================================
