---------------------------- MODULE MembersProofs ----------------------------
(***************************************************************************)
(* Proofs about Members, for any number of people and of requests in       *)
(* flight.  Acceptance names the invitation by its id, so what matters is  *)
(* that no request holds the id of nothing; and a removal that counted by  *)
(* itself leaves somebody behind because nobody else has counted since.    *)
(***************************************************************************)
EXTENDS Members, FiniteSetTheorems, NaturalsInduction, WellFoundedInduction, TLAPS

Statuses == {"none", "open", "accepted", "expired"}

Counting == [op : {"invite", "add"}, who : People, seen : Nat, left : SUBSET {"members", "pending"}]
Writing == [op : {"write"}, what : {"invite", "add"}, who : People]
Accepting == [op : {"accept", "register"}, who : People, id : 1..MaxIds,
              looked : {"no", "member", "stranger"}]
Revoking == [op : {"revoke"}, who : People, id : 1..MaxIds]
Changing == [op : {"remove", "retitle"}, since : 1..MaxIds, role : Roles,
             counted : {"no", "alone", "together"}]
ClerkRecords == {Idle} \cup Counting \cup Writing \cup Accepting \cup Revoking \cup Changing

\* The rows of the database.
MembersOK ==
    /\ members \subseteq [user : People, role : Roles, since : 1..ids] /\ IsFiniteSet(members)
    /\ \A m, n \in members : (m.user = n.user \/ m.since = n.since) => m = n

InvitesOK ==
    /\ invites \in [People -> [id : 0..ids, status : Statuses]]
    /\ \A p \in People : invites[p].id = 0 => invites[p] = NoInvite

RowsOK ==
    /\ users \subseteq People /\ ids \in 1..MaxIds /\ torn \in BOOLEAN
    /\ MembersOK /\ InvitesOK

\* The requests in flight.
ClerksOK == clerk \in [Clerks -> ClerkRecords]

Company == \E m, n \in members : m # n

\* A removal that counted alone is the only one that has, and it saw company.
AloneOK ==
    \A c \in Clerks : Counted(c) /\ clerk[c].counted = "alone" =>
        /\ \A d \in Clerks \ {c} : ~Counted(d)
        /\ Company

MembersInv == RowsOK /\ ClerksOK /\ AloneOK

\* The rows of a request, each by the kind of request it is.
LEMMA ClerkKinds ==
    ASSUME ClerksOK, NEW c \in Clerks
    PROVE  /\ clerk[c] \in ClerkRecords
           /\ Taking(c) => clerk[c] \in Counting
           /\ clerk[c].op = "write" => clerk[c] \in Writing
           /\ clerk[c].op \in {"accept", "register"} => clerk[c] \in Accepting
           /\ clerk[c].op = "revoke" => clerk[c] \in Revoking
           /\ clerk[c].op \in {"remove", "retitle"} => clerk[c] \in Changing
  BY DEF ClerksOK, ClerkRecords, Taking, Idle, Counting, Writing, Accepting, Revoking, Changing

\* A request moves on to anything but a removal that has counted, and leaves
\* company where there was some.
LEMMA ClerkMoves ==
    ASSUME ClerksOK, AloneOK, NEW c \in Clerks, NEW x \in ClerkRecords,
           clerk' = [clerk EXCEPT ![c] = x], ~(x.op = "remove" /\ x.counted # "no"),
           Company => Company'
    PROVE  ClerksOK' /\ AloneOK'
<1>1. /\ clerk' \in [Clerks -> ClerkRecords]
      /\ \A d \in Clerks : clerk'[d] = IF d = c THEN x ELSE clerk[d]
  BY DEF ClerksOK
<1>2. ~Counted(c)'
  BY <1>1 DEF Counted
<1>3. \A d \in Clerks : Counted(d)' => Counted(d) /\ d # c /\ clerk'[d].counted = clerk[d].counted
  BY <1>1, <1>2 DEF Counted
<1>4. AloneOK'
  BY <1>3 DEF AloneOK
<1> QED BY <1>1, <1>4 DEF ClerksOK

\* A request is answered.
LEMMA AnswerMoves ==
    ASSUME ClerksOK, AloneOK, NEW c \in Clerks, Answer(c), Company => Company'
    PROVE  ClerksOK' /\ AloneOK'
<1>1. Idle \in ClerkRecords /\ Idle.op # "remove"
  BY DEF ClerkRecords, Idle
<1>2. clerk' = [clerk EXCEPT ![c] = Idle]
  BY DEF Answer
<1> HIDE DEF Idle
<1> QED BY <1>1, <1>2, ClerkMoves

\* Nothing in the database changes.
LEMMA RowsStay ==
    ASSUME RowsOK, UNCHANGED <<users, members, invites, ids, torn>>
    PROVE  RowsOK' /\ (Company => Company')
  BY DEF RowsOK, MembersOK, InvitesOK, Company

\* Somebody joins, or was there already.
LEMMA EnrolKeeps ==
    ASSUME MembersOK, ids \in 1..MaxIds, NEW p \in People, Enrol(p)
    PROVE  /\ MembersOK' /\ ids' \in 1..MaxIds /\ ids \in 0..ids' /\ ids <= ids'
           /\ members \subseteq members'
           /\ \A m \in members' : m.user \notin Joined => m.user = p
<1>0. MaxIds \in Nat
  BY MembersAssumption
<1>1. CASE p \in Joined
  <2>1. UNCHANGED <<members, ids>>
    BY <1>1 DEF Enrol
  <2> QED BY <1>0, <2>1 DEF MembersOK, Joined
<1>2. CASE p \notin Joined
  <2> DEFINE n == ids + 1
             row == [user |-> p, role |-> "preparer", since |-> n]
  <2>1. ids < MaxIds /\ ids' = n /\ members' = members \cup {row}
    BY <1>2 DEF Enrol
  <2>2. n \in 1..MaxIds /\ ids \in 0..n /\ ids <= n /\ n > ids
    <3>1. ids < MaxIds
      BY <2>1
    <3> QED BY ONLY <1>0, <3>1, ids \in 1..MaxIds
  <2>3. \A m \in members : m.since \in 1..n /\ m.since # n /\ m.user # p
    <3>1. \A m \in members : m.since \in 1..ids
      BY DEF MembersOK
    <3>2. \A m \in members : m.since \in 1..n /\ m.since # n
      BY <3>1, ids \in 1..MaxIds, <1>0
    <3>3. \A m \in members : m.user # p
      BY <1>2 DEF Joined
    <3> QED BY <3>2, <3>3
  <2> HIDE DEF n
  <2>4. row \in [user : People, role : Roles, since : 1..n]
    <3>1. n \in 1..n
      BY <1>0, <2>2
    <3> QED BY <3>1 DEF Roles
  <2>5. members \subseteq [user : People, role : Roles, since : 1..n]
    BY <2>3 DEF MembersOK
  <2>6. IsFiniteSet(members')
    BY <2>1, FS_AddElement DEF MembersOK
  <2>7. row.user = p /\ row.since = n
    OBVIOUS
  <2> HIDE DEF row
  <2>8. \A k, m \in members' : (k.user = m.user \/ k.since = m.since) => k = m
    BY <2>1, <2>3, <2>7 DEF MembersOK
  <2>9. MembersOK'
    BY <2>1, <2>4, <2>5, <2>6, <2>8 DEF MembersOK
  <2> QED BY <2>1, <2>2, <2>7, <2>9 DEF Joined
<1> QED BY <1>1, <1>2

\* An invitation that is there is marked or withdrawn.
LEMMA InviteKeeps ==
    ASSUME InvitesOK, ids \in 1..MaxIds, NEW p \in People, invites[p].id # 0,
           NEW s \in Statuses, ids' = ids,
           \/ invites' = [invites EXCEPT ![p].status = s]
           \/ invites' = [invites EXCEPT ![p] = NoInvite]
    PROVE  InvitesOK'
<1>1. NoInvite \in [id : 0..ids, status : Statuses] /\ NoInvite.id = 0
  <2>1. 0 \in 0..ids
    BY MembersAssumption
  <2> QED BY <2>1 DEF NoInvite, Statuses
<1>2. invites \in [People -> [id : 0..ids, status : Statuses]]
  BY DEF InvitesOK
<1>3. CASE invites' = [invites EXCEPT ![p].status = s]
  <2>1. /\ invites' \in [People -> [id : 0..ids, status : Statuses]]
        /\ \A q \in People : q # p => invites'[q] = invites[q]
        /\ invites'[p].id = invites[p].id
    BY <1>2, <1>3
  <2>2. \A q \in People : invites'[q].id = 0 => invites'[q] = NoInvite
    BY <2>1 DEF InvitesOK
  <2> QED BY <2>1, <2>2 DEF InvitesOK
<1>4. CASE invites' = [invites EXCEPT ![p] = NoInvite]
  <2> HIDE DEF NoInvite
  <2>1. /\ invites' \in [People -> [id : 0..ids, status : Statuses]]
        /\ \A q \in People : q # p => invites'[q] = invites[q]
        /\ invites'[p] = NoInvite
    BY <1>1, <1>2, <1>4
  <2>2. \A q \in People : invites'[q].id = 0 => invites'[q] = NoInvite
    BY <2>1 DEF InvitesOK
  <2> QED BY <2>1, <2>2 DEF InvitesOK
<1> QED BY <1>3, <1>4

\* A workspace begins with the one who registered it.
LEMMA InitMembersInv == MembersInit => MembersInv
<1> SUFFICES ASSUME MembersInit PROVE MembersInv
  OBVIOUS
<1>1. Idle \in ClerkRecords /\ Idle.op = "idle"
  BY DEF ClerkRecords, Idle
<1>2. ClerksOK /\ AloneOK
  BY <1>1 DEF MembersInit, ClerksOK, AloneOK, Counted
<1>3. MaxIds \in Nat \ {0} /\ ids = 1 /\ ids \in 1..MaxIds
  BY MembersAssumption DEF MembersInit
<1>4. MembersOK
  <2>1. IsFiniteSet({[user |-> Founder, role |-> "admin", since |-> 1]})
    BY FS_Singleton
  <2> QED BY <1>3, <2>1, MembersAssumption DEF MembersInit, MembersOK, Roles
<1>5. InvitesOK
  <2>1. NoInvite \in [id : 0..ids, status : Statuses]
    BY <1>3 DEF NoInvite, Statuses
  <2> QED BY <2>1 DEF MembersInit, InvitesOK
<1> QED BY <1>2, <1>3, <1>4, <1>5, MembersAssumption DEF MembersInv, RowsOK, MembersInit

\* A request that only moves on.
LEMMA QuietStep ==
    ASSUME MembersInv, NEW c \in Clerks, UNCHANGED <<users, members, invites, ids, torn>>,
           \/ Answer(c)
           \/ \E x \in ClerkRecords : /\ clerk' = [clerk EXCEPT ![c] = x]
                                      /\ ~(x.op = "remove" /\ x.counted # "no")
    PROVE  MembersInv'
<1>1. RowsOK' /\ (Company => Company')
  BY RowsStay DEF MembersInv
<1>2. CASE Answer(c)
  BY <1>1, <1>2, AnswerMoves DEF MembersInv
<1>3. CASE \E x \in ClerkRecords : /\ clerk' = [clerk EXCEPT ![c] = x]
                                   /\ ~(x.op = "remove" /\ x.counted # "no")
  BY <1>1, <1>3, ClerkMoves DEF MembersInv
<1> QED BY <1>2, <1>3

\* Inviting and adding keep the invariant.
LEMMA SeatSteps ==
    ASSUME MembersInv, NEW c \in Clerks,
           \/ \E op \in {"invite", "add"}, p \in People : BeginSeat(c, op, p)
           \/ \E half \in {"members", "pending"} : CountHalf(c, half)
           \/ FindPerson(c) \/ WriteInvite(c) \/ WriteMember(c)
    PROVE  MembersInv'
<1>0. /\ RowsOK /\ ClerksOK /\ AloneOK /\ MembersOK /\ InvitesOK /\ ids \in 1..MaxIds
      /\ MaxIds \in Nat \ {0}
  BY MembersAssumption DEF MembersInv, RowsOK
<1>1. ASSUME NEW op \in {"invite", "add"}, NEW p \in People, BeginSeat(c, op, p) PROVE MembersInv'
  <2> DEFINE x == [op |-> op, who |-> p, seen |-> 0, left |-> {"members", "pending"}]
  <2>1. x \in ClerkRecords /\ x.op # "remove"
    BY DEF ClerkRecords, Counting
  <2>2. clerk' = [clerk EXCEPT ![c] = x] /\ UNCHANGED <<users, members, invites, ids, torn>>
    BY <1>1 DEF BeginSeat
  <2> HIDE DEF x
  <2> QED BY <2>1, <2>2, QuietStep
<1>2. ASSUME NEW half \in {"members", "pending"}, CountHalf(c, half) PROVE MembersInv'
  <2> DEFINE n == Cardinality(IF half = "members" THEN members ELSE Pending)
             seen == clerk[c].seen + n
             left == clerk[c].left \ {half}
             s == IF left = {} THEN 0 ELSE seen
             x == [clerk[c] EXCEPT !.left = left, !.seen = s]
  <2>1. UNCHANGED <<users, members, invites, ids, torn>> /\ Taking(c)
    BY <1>2 DEF CountHalf
  <2>2. Answer(c) \/ clerk' = [clerk EXCEPT ![c].left = left, ![c].seen = s]
    BY <1>2 DEF CountHalf
  <2>3. clerk[c] \in Counting
    BY <1>0, <2>1, ClerkKinds
  <2>4. n \in Nat
    <3>1. IsFiniteSet(members) /\ IsFiniteSet(People) /\ Pending \in SUBSET People
      BY <1>0, MembersAssumption DEF MembersOK, Pending
    <3>2. Cardinality(members) \in Nat /\ Cardinality(Pending) \in Nat
      BY <3>1, FS_Subset, FS_CardinalityType
    <3> QED BY <3>2
  <2> HIDE DEF n
  <2>5. s \in Nat /\ left \in SUBSET {"members", "pending"}
    BY <2>3, <2>4 DEF Counting
  <2> HIDE DEF s, left
  <2>6. x \in Counting /\ x.op # "remove"
    BY <2>3, <2>5 DEF Counting
  <2>7. ASSUME clerk' = [clerk EXCEPT ![c].left = left, ![c].seen = s]
        PROVE  clerk' = [clerk EXCEPT ![c] = x]
    BY <1>0, <2>7 DEF ClerksOK
  <2> HIDE DEF x
  <2> QED BY <2>1, <2>2, <2>6, <2>7, QuietStep DEF ClerkRecords
<1>3. ASSUME FindPerson(c) PROVE MembersInv'
  <2> DEFINE x == [op |-> "write", what |-> clerk[c].op, who |-> clerk[c].who]
  <2>1. UNCHANGED <<users, members, invites, ids, torn>> /\ Taking(c)
    BY <1>3 DEF FindPerson
  <2>2. clerk[c] \in Counting
    BY <1>0, <2>1, ClerkKinds
  <2>3. Answer(c) \/ clerk' = [clerk EXCEPT ![c] = x]
    BY <1>0, <1>3 DEF FindPerson, ClerksOK
  <2>4. x \in Writing /\ x.op # "remove"
    BY <2>2 DEF Counting, Writing
  <2> HIDE DEF x
  <2> QED BY <2>1, <2>3, <2>4, QuietStep DEF ClerkRecords
<1>4. ASSUME WriteInvite(c) PROVE MembersInv'
  <2>0. clerk[c].op = "write"
    BY <1>4 DEF WriteInvite
  <2>1. PICK p \in People : clerk[c].who = p
    BY <1>0, <2>0, ClerkKinds DEF Writing
  <2> DEFINE i == IF invites[p] = NoInvite THEN ids + 1 ELSE invites[p].id
             row == [id |-> i, status |-> "open"]
  <2>2. /\ ids < MaxIds \/ invites[p] # NoInvite
        /\ ids' = IF invites[p] = NoInvite THEN ids + 1 ELSE ids
        /\ invites' = [invites EXCEPT ![p] = row]
        /\ Answer(c) /\ UNCHANGED <<users, members, torn>>
    BY <1>4, <2>1 DEF WriteInvite
  <2>3. invites[p] # NoInvite => invites[p].id \in 1..ids
    BY <1>0 DEF InvitesOK
  <2> HIDE DEF NoInvite
  <2>4. /\ ids' \in 1..MaxIds /\ ids <= ids' /\ i \in 1..ids'
    BY <1>0, <2>2, <2>3
  <2> HIDE DEF i
  <2>5. row \in [id : 0..ids', status : Statuses] /\ row.id # 0
    BY <2>4 DEF Statuses
  <2>6. \A q \in People : invites[q].id \in 0..ids' /\ invites[q].status \in Statuses
                          /\ invites[q] \in [id : 0..ids', status : Statuses]
    <3> SUFFICES ASSUME NEW q \in People
                 PROVE  invites[q].id \in 0..ids' /\ invites[q].status \in Statuses
                        /\ invites[q] \in [id : 0..ids', status : Statuses]
      OBVIOUS
    <3>1. invites[q] \in [id : 0..ids, status : Statuses]
      BY <1>0 DEF InvitesOK
    <3>2. invites[q].id \in 0..ids'
      BY <1>0, <2>4, <3>1
    <3> QED BY <3>1, <3>2
  <2> HIDE DEF row
  <2>7. InvitesOK'
    <3>1. invites' \in [People -> [id : 0..ids', status : Statuses]]
      BY <1>0, <2>2, <2>5, <2>6 DEF InvitesOK
    <3>2. \A q \in People : invites'[q] = IF q = p THEN row ELSE invites[q]
      BY <1>0, <2>2 DEF InvitesOK
    <3> QED BY <1>0, <2>5, <3>1, <3>2 DEF InvitesOK
  <2>8. MembersOK'
    <3>1. \A m \in members : m.since \in 1..ids'
      <4> SUFFICES ASSUME NEW m \in members PROVE m.since \in 1..ids'
        OBVIOUS
      <4>1. m.since \in 1..ids
        BY <1>0 DEF MembersOK
      <4> QED BY <1>0, <2>4, <4>1
    <3> QED BY <1>0, <2>2, <3>1 DEF MembersOK
  <2>9. ClerksOK' /\ AloneOK'
    BY <1>0, <2>2, AnswerMoves DEF Company
  <2> QED BY <1>0, <2>2, <2>4, <2>7, <2>8, <2>9 DEF MembersInv, RowsOK
<1>5. ASSUME WriteMember(c) PROVE MembersInv'
  <2>1. clerk[c].op = "write" /\ Enrol(clerk[c].who) /\ Answer(c) /\ UNCHANGED <<users, invites, torn>>
    BY <1>5 DEF WriteMember
  <2>2. clerk[c].who \in People
    BY <1>0, <2>1, ClerkKinds DEF Writing
  <2>3. MembersOK' /\ ids' \in 1..MaxIds /\ ids <= ids' /\ members \subseteq members'
    BY <1>0, <2>1, <2>2, EnrolKeeps
  <2>4. InvitesOK'
    <3>1. \A q \in People : invites[q] \in [id : 0..ids', status : Statuses]
      <4> SUFFICES ASSUME NEW q \in People PROVE invites[q] \in [id : 0..ids', status : Statuses]
        OBVIOUS
      <4>1. invites[q] \in [id : 0..ids, status : Statuses]
        BY <1>0 DEF InvitesOK
      <4>2. invites[q].id \in 0..ids'
        BY <1>0, <2>3, <4>1
      <4> QED BY <4>1, <4>2
    <3> QED BY <1>0, <2>1, <3>1 DEF InvitesOK
  <2>5. Company => Company'
    BY <2>3 DEF Company
  <2>6. ClerksOK' /\ AloneOK'
    BY <1>0, <2>1, <2>5, AnswerMoves
  <2> QED BY <1>0, <2>1, <2>3, <2>4, <2>6 DEF MembersInv, RowsOK
<1> QED BY <1>1, <1>2, <1>3, <1>4, <1>5

\* Accepting and withdrawing keep the invariant.
LEMMA AcceptSteps ==
    ASSUME MembersInv, NEW c \in Clerks,
           \/ \E p \in People : BeginAccept(c, p) \/ BeginRevoke(c, p)
           \/ LookForMember(c) \/ CloseInvite(c) \/ JoinByInvite(c)
           \/ RegisterByInvite(c) \/ Revoke(c)
    PROVE  MembersInv'
<1>0. /\ RowsOK /\ ClerksOK /\ AloneOK /\ MembersOK /\ InvitesOK /\ ids \in 1..MaxIds
      /\ MaxIds \in Nat \ {0} /\ users \subseteq People /\ torn \in BOOLEAN
  BY MembersAssumption DEF MembersInv, RowsOK
<1>1. \A p \in People : invites[p] # NoInvite => invites[p].id \in 1..MaxIds
  <2> SUFFICES ASSUME NEW p \in People, invites[p] # NoInvite PROVE invites[p].id \in 1..MaxIds
    OBVIOUS
  <2>1. invites[p].id \in 0..ids /\ invites[p].id # 0
    BY <1>0 DEF InvitesOK
  <2> QED BY <1>0, <2>1
<1>2. ASSUME NEW p \in People, BeginAccept(c, p) PROVE MembersInv'
  <2> DEFINE o == IF p \in users THEN "accept" ELSE "register"
             x == [op |-> o, who |-> p, id |-> invites[p].id, looked |-> "no"]
  <2>1. clerk' = [clerk EXCEPT ![c] = x] /\ UNCHANGED <<users, members, invites, ids, torn>>
    BY <1>2 DEF BeginAccept
  <2>2. invites[p].id \in 1..MaxIds
    BY <1>1, <1>2 DEF BeginAccept, Pending
  <2>3. x \in Accepting /\ x.op # "remove"
    BY <2>2 DEF Accepting
  <2> HIDE DEF x
  <2> QED BY <2>1, <2>3, QuietStep DEF ClerkRecords
<1>3. ASSUME NEW p \in People, BeginRevoke(c, p) PROVE MembersInv'
  <2> DEFINE x == [op |-> "revoke", who |-> p, id |-> invites[p].id]
  <2>1. clerk' = [clerk EXCEPT ![c] = x] /\ UNCHANGED <<users, members, invites, ids, torn>>
    BY <1>3 DEF BeginRevoke
  <2>2. invites[p].id \in 1..MaxIds
    BY <1>1, <1>3 DEF BeginRevoke
  <2>3. x \in Revoking /\ x.op # "remove"
    BY <2>2 DEF Revoking
  <2> HIDE DEF x
  <2> QED BY <2>1, <2>3, QuietStep DEF ClerkRecords
<1>4. ASSUME LookForMember(c) PROVE MembersInv'
  <2> DEFINE l == IF clerk[c].who \in Joined THEN "member" ELSE "stranger"
             x == [clerk[c] EXCEPT !.looked = l]
  <2>1. clerk[c].op = "accept" /\ UNCHANGED <<users, members, invites, ids, torn>>
    BY <1>4 DEF LookForMember
  <2>2. clerk[c] \in Accepting
    BY <1>0, <2>1, ClerkKinds
  <2>3. clerk' = [clerk EXCEPT ![c] = x]
    BY <1>0, <1>4 DEF LookForMember, ClerksOK
  <2>4. l \in {"no", "member", "stranger"}
    OBVIOUS
  <2> HIDE DEF l
  <2>5. x \in Accepting /\ x.op # "remove"
    BY <2>2, <2>4 DEF Accepting
  <2> HIDE DEF x
  <2> QED BY <2>1, <2>3, <2>5, QuietStep DEF ClerkRecords
<1>5. ASSUME clerk[c].op \in {"accept", "register"}, StillInvited(c)
      PROVE  clerk[c].who \in People /\ invites[clerk[c].who].id # 0
  <2>1. clerk[c] \in Accepting
    BY <1>0, <1>5, ClerkKinds
  <2>2. clerk[c].who \in People /\ clerk[c].id \in 1..MaxIds
    BY <2>1 DEF Accepting
  <2> QED BY <1>0, <1>5, <2>2 DEF StillInvited
<1>6. ASSUME clerk[c].op \in {"accept", "register"}, StillInvited(c), MarkAccepted(c), ids' = ids
      PROVE  InvitesOK'
  <2>1. PICK p \in People : clerk[c].who = p /\ invites[p].id # 0
    BY <1>5, <1>6
  <2>2. invites' = [invites EXCEPT ![p].status = "accepted"] /\ "accepted" \in Statuses
    BY <1>6, <2>1 DEF MarkAccepted, Statuses
  <2> QED BY <1>0, <1>6, <2>1, <2>2, InviteKeeps
<1>7. ASSUME CloseInvite(c) PROVE MembersInv'
  <2>1. /\ clerk[c].op = "accept" /\ Answer(c) /\ UNCHANGED <<users, members, ids>>
        /\ (StillInvited(c) /\ MarkAccepted(c)) \/ UNCHANGED invites
        /\ torn' \in BOOLEAN
    BY <1>0, <1>7 DEF CloseInvite, Torn
  <2>2. InvitesOK'
    <3>1. CASE UNCHANGED invites
      BY <1>0, <2>1, <3>1 DEF InvitesOK
    <3> QED BY <1>6, <2>1, <3>1
  <2>3. ClerksOK' /\ AloneOK'
    BY <1>0, <2>1, AnswerMoves DEF Company
  <2>4. MembersOK'
    BY <1>0, <2>1 DEF MembersOK
  <2> QED BY <1>0, <2>1, <2>2, <2>3, <2>4 DEF MembersInv, RowsOK
<1>8. ASSUME InvitesOK, NEW p \in People, MarkAccepted(c), StillInvited(c), clerk[c].who = p,
             clerk[c].op \in {"accept", "register"}, Enrol(p), Answer(c), torn' \in BOOLEAN,
             users' \subseteq People
      PROVE  MembersInv'
  <2>1. MembersOK' /\ ids' \in 1..MaxIds /\ ids <= ids' /\ members \subseteq members'
    BY <1>0, <1>8, EnrolKeeps
  <2>2. invites[p].id # 0 /\ invites' = [invites EXCEPT ![p].status = "accepted"]
    BY <1>5, <1>8 DEF MarkAccepted
  <2>3. \A q \in People : invites[q] \in [id : 0..ids', status : Statuses]
    <3> SUFFICES ASSUME NEW q \in People PROVE invites[q] \in [id : 0..ids', status : Statuses]
      OBVIOUS
    <3>1. invites[q] \in [id : 0..ids, status : Statuses]
      BY <1>0 DEF InvitesOK
    <3>2. invites[q].id \in 0..ids'
      BY <1>0, <2>1, <3>1
    <3> QED BY <3>1, <3>2
  <2>4. \A q \in People : /\ invites'[q] \in [id : 0..ids', status : Statuses]
                          /\ q # p => invites'[q] = invites[q]
                          /\ invites'[q].id = invites[q].id
    BY <1>0, <2>2, <2>3 DEF InvitesOK, Statuses
  <2>5. InvitesOK'
    <3>1. invites' \in [People -> [id : 0..ids', status : Statuses]]
      BY <1>0, <2>2, <2>4 DEF InvitesOK
    <3> QED BY <1>0, <2>2, <2>4, <3>1 DEF InvitesOK
  <2>6. ClerksOK' /\ AloneOK'
    BY <1>0, <1>8, <2>1, AnswerMoves DEF Company
  <2> QED BY <1>8, <2>1, <2>5, <2>6 DEF MembersInv, RowsOK
<1>9. ASSUME JoinByInvite(c) PROVE MembersInv'
  <2>1. clerk[c].op = "accept" /\ Answer(c) /\ UNCHANGED users /\ torn' \in BOOLEAN
    BY <1>0, <1>9 DEF JoinByInvite, Torn, Commit
  <2>2. CASE Commit(c)
    <3>1. MarkAccepted(c) /\ Enrol(clerk[c].who) /\ StillInvited(c)
      BY <1>9, <2>2 DEF JoinByInvite, Commit
    <3>2. clerk[c].who \in People
      BY <1>5, <2>1, <3>1
    <3> QED BY <1>0, <1>8, <2>1, <3>1, <3>2
  <2>3. CASE ~Commit(c)
    <3>1. UNCHANGED <<invites, members, ids>>
      BY <1>9, <2>3 DEF JoinByInvite
    <3>2. ClerksOK' /\ AloneOK'
      BY <1>0, <2>1, <3>1, AnswerMoves DEF Company
    <3> QED BY <1>0, <2>1, <3>1, <3>2 DEF MembersInv, RowsOK, MembersOK, InvitesOK
  <2> QED BY <2>2, <2>3
<1>10. ASSUME RegisterByInvite(c) PROVE MembersInv'
  <2>1. clerk[c].op = "register" /\ Answer(c) /\ torn' \in BOOLEAN
    BY <1>0, <1>10 DEF RegisterByInvite, Torn, Commit
  <2>2. CASE Commit(c) /\ clerk[c].who \notin users
    <3>1. /\ MarkAccepted(c) /\ Enrol(clerk[c].who) /\ StillInvited(c)
          /\ users' = users \cup {clerk[c].who}
      BY <1>10, <2>2 DEF RegisterByInvite, Commit
    <3>2. clerk[c].who \in People
      BY <1>5, <2>1, <3>1
    <3> QED BY <1>0, <1>8, <2>1, <3>1, <3>2
  <2>3. CASE ~(Commit(c) /\ clerk[c].who \notin users)
    <3>1. UNCHANGED <<invites, members, ids, users>>
      BY <1>10, <2>3 DEF RegisterByInvite
    <3>2. ClerksOK' /\ AloneOK'
      BY <1>0, <2>1, <3>1, AnswerMoves DEF Company
    <3> QED BY <1>0, <2>1, <3>1, <3>2 DEF MembersInv, RowsOK, MembersOK, InvitesOK
  <2> QED BY <2>2, <2>3
<1>11. ASSUME Revoke(c) PROVE MembersInv'
  <2>1. /\ clerk[c].op = "revoke" /\ Answer(c) /\ UNCHANGED <<users, members, ids>>
        /\ torn' \in BOOLEAN
    BY <1>0, <1>11 DEF Revoke, Torn
  <2>2. PICK p \in People : clerk[c].who = p /\ clerk[c].id \in 1..MaxIds
    BY <1>0, <2>1, ClerkKinds DEF Revoking
  <2>3. InvitesOK'
    <3>1. CASE StillInvited(c)
      <4>1. invites' = [invites EXCEPT ![p] = NoInvite] /\ invites[p].id # 0
        BY <1>0, <1>11, <2>2, <3>1 DEF Revoke, StillInvited
      <4>2. "none" \in Statuses
        BY DEF Statuses
      <4> QED BY <1>0, <2>1, <4>1, <4>2, InviteKeeps
    <3>2. CASE ~StillInvited(c)
      <4>1. UNCHANGED invites
        BY <1>11, <3>2 DEF Revoke
      <4> QED BY <1>0, <2>1, <4>1 DEF InvitesOK
    <3> QED BY <3>1, <3>2
  <2>4. ClerksOK' /\ AloneOK'
    BY <1>0, <2>1, AnswerMoves DEF Company
  <2> QED BY <1>0, <2>1, <2>3, <2>4 DEF MembersInv, RowsOK, MembersOK
<1> QED BY <1>2, <1>3, <1>4, <1>7, <1>9, <1>10, <1>11

\* Removing and changing a role keep the invariant.
LEMMA ChangeSteps ==
    ASSUME MembersInv, NEW c \in Clerks,
           \/ \E op \in {"remove", "retitle"}, m \in members, r \in Roles : BeginChange(c, op, m, r)
           \/ CountForRemoval(c) \/ Remove(c) \/ ChangeRole(c)
    PROVE  MembersInv'
<1>0. /\ RowsOK /\ ClerksOK /\ AloneOK /\ MembersOK /\ InvitesOK /\ ids \in 1..MaxIds
      /\ MaxIds \in Nat \ {0}
  BY MembersAssumption DEF MembersInv, RowsOK
<1>1. ASSUME NEW op \in {"remove", "retitle"}, NEW m \in members, NEW r \in Roles,
             BeginChange(c, op, m, r)
      PROVE  MembersInv'
  <2> DEFINE x == [op |-> op, since |-> m.since, role |-> r, counted |-> "no"]
  <2>1. clerk' = [clerk EXCEPT ![c] = x] /\ UNCHANGED <<users, members, invites, ids, torn>>
    BY <1>1 DEF BeginChange
  <2>2. m.since \in 1..MaxIds
    <3>1. m.since \in 1..ids
      BY <1>0 DEF MembersOK
    <3> QED BY <1>0, <3>1
  <2>3. x \in Changing /\ x.counted = "no"
    BY <2>2 DEF Changing
  <2> HIDE DEF x
  <2> QED BY <2>1, <2>3, QuietStep DEF ClerkRecords
<1>2. ASSUME CountForRemoval(c) PROVE MembersInv'
  <2> DEFINE others == {d \in Clerks \ {c} : Counted(d)}
             w == IF others = {} THEN "alone" ELSE "together"
  <2>1. UNCHANGED <<users, members, invites, ids, torn>>
    BY <1>2 DEF CountForRemoval
  <2>2. CASE OnlyOneLeft
    BY <1>2, <2>1, <2>2, QuietStep DEF CountForRemoval
  <2>3. CASE ~OnlyOneLeft
    <3>1. /\ clerk[c].op = "remove"
          /\ clerk' = [d \in Clerks |-> IF d = c \/ d \in others
                         THEN [clerk[d] EXCEPT !.counted = w] ELSE clerk[d]]
      BY <1>2, <2>3 DEF CountForRemoval
    <3>2. w \in {"alone", "together"} /\ (others # {} => w = "together")
      OBVIOUS
    <3>3. \A d \in Clerks : d = c \/ d \in others => clerk[d].op = "remove" /\ clerk[d] \in Changing
      BY <1>0, <3>1, ClerkKinds DEF Counted
    <3>4. \A d \in Clerks : d # c /\ d \notin others => ~Counted(d)
      OBVIOUS
    <3>5. others \subseteq Clerks \ {c}
      OBVIOUS
    <3> HIDE DEF others, w
    <3>6. \A d \in Clerks :
            IF d = c \/ d \in others
              THEN clerk'[d] \in Changing /\ clerk'[d].op = "remove" /\ clerk'[d].counted = w
              ELSE clerk'[d] = clerk[d]
      BY <3>1, <3>2, <3>3 DEF Changing
    <3>7. ClerksOK'
      <4>1. \A d \in Clerks : clerk'[d] \in ClerkRecords
        BY <1>0, <3>6 DEF ClerksOK, ClerkRecords
      <4> QED BY <3>1, <4>1 DEF ClerksOK
    <3>8. Company'
      <4>1. IsFiniteSet(members) /\ Cardinality(members) \in Nat /\ ~(Cardinality(members) <= 1)
        BY <1>0, <2>3, FS_CardinalityType DEF MembersOK, OnlyOneLeft
      <4>2. members # {}
        BY <4>1, FS_EmptySet
      <4>3. PICK m \in members : TRUE
        BY <4>2
      <4>4. members # {m}
        BY <4>1, FS_Singleton
      <4> QED BY <2>1, <4>3, <4>4 DEF Company
    <3>9. \A d \in Clerks : Counted(d)' => (d = c \/ d \in others) /\ clerk'[d].counted = w
      BY <3>4, <3>6 DEF Counted
    <3>10. AloneOK'
      <4>1. CASE others = {}
        BY <3>8, <3>9, <4>1 DEF AloneOK
      <4>2. CASE others # {}
        BY <3>2, <3>9, <4>2 DEF AloneOK
      <4> QED BY <4>1, <4>2
    <3> QED BY <1>0, <2>1, <3>7, <3>10, RowsStay DEF MembersInv
  <2> QED BY <2>2, <2>3
<1>3. ASSUME Remove(c) PROVE MembersInv'
  <2>1. /\ Counted(c) /\ members' = {m \in members : m.since # clerk[c].since}
        /\ Answer(c) /\ UNCHANGED <<users, invites, ids, torn>>
    BY <1>3 DEF Remove
  <2>2. MembersOK'
    <3>1. IsFiniteSet(members')
      BY <1>0, <2>1, FS_Subset DEF MembersOK
    <3> QED BY <1>0, <2>1, <3>1 DEF MembersOK
  <2>3. Idle \in ClerkRecords /\ Idle.op = "idle"
    BY DEF ClerkRecords, Idle
  <2>4. /\ clerk' \in [Clerks -> ClerkRecords]
        /\ \A d \in Clerks : clerk'[d] = IF d = c THEN Idle ELSE clerk[d]
    BY <1>0, <2>1, <2>3 DEF Answer, ClerksOK
  <2>5. \A d \in Clerks \ {c} : ~(Counted(d) /\ clerk[d].counted = "alone")
    BY <1>0, <2>1 DEF AloneOK
  <2>6. AloneOK'
    BY <2>3, <2>4, <2>5 DEF AloneOK, Counted
  <2> QED BY <1>0, <2>1, <2>2, <2>4, <2>6 DEF MembersInv, RowsOK, ClerksOK, InvitesOK
<1>4. ASSUME ChangeRole(c) PROVE MembersInv'
  <2> DEFINE titled(m) == IF m.since = clerk[c].since THEN [m EXCEPT !.role = clerk[c].role] ELSE m
  <2>1. /\ clerk[c].op = "retitle" /\ members' = {titled(m) : m \in members}
        /\ Answer(c) /\ UNCHANGED <<users, invites, ids, torn>>
    BY <1>4 DEF ChangeRole
  <2>2. clerk[c].role \in Roles
    BY <1>0, <2>1, ClerkKinds DEF Changing
  <2>3. \A m \in members : /\ titled(m) \in [user : People, role : Roles, since : 1..ids]
                           /\ titled(m).user = m.user /\ titled(m).since = m.since
    BY <1>0, <2>2 DEF MembersOK
  <2> HIDE DEF titled
  <2>4. IsFiniteSet(members')
    <3> DEFINE f == [m \in members |-> titled(m)]
    <3>1. f \in Surjection(members, members')
      BY <2>1 DEF Surjection
    <3>2. IsFiniteSet(members)
      BY <1>0 DEF MembersOK
    <3> HIDE DEF f
    <3> QED BY <3>1, <3>2, FS_Surjection
  <2>5. MembersOK'
    BY <1>0, <2>1, <2>3, <2>4 DEF MembersOK
  <2>6. Company => Company'
    BY <1>0, <2>1, <2>3 DEF Company, MembersOK
  <2>7. ClerksOK' /\ AloneOK'
    BY <1>0, <2>1, <2>6, AnswerMoves
  <2> QED BY <1>0, <2>1, <2>5, <2>7 DEF MembersInv, RowsOK, InvitesOK
<1> QED BY <1>1, <1>2, <1>3, <1>4

\* Every step keeps the invariant.
LEMMA NextMembersInv == MembersInv /\ [MembersNext]_membersVars => MembersInv'
<1> SUFFICES ASSUME MembersInv, [MembersNext]_membersVars PROVE MembersInv'
  OBVIOUS
<1>1. ASSUME NEW p \in People, Expire(p) PROVE MembersInv'
  <2>1. /\ InvitesOK /\ MembersOK /\ ids \in 1..MaxIds /\ users \subseteq People
        /\ torn \in BOOLEAN /\ ClerksOK /\ AloneOK
    BY DEF MembersInv, RowsOK
  <2>2. /\ invites' = [invites EXCEPT ![p].status = "expired"] /\ torn' \in BOOLEAN
        /\ UNCHANGED <<users, members, clerk, ids>> /\ invites[p] # NoInvite
    BY <1>1, <2>1 DEF Expire, Torn, Pending
  <2>3. invites[p].id # 0
    BY <2>1, <2>2 DEF InvitesOK
  <2>4. "expired" \in Statuses
    BY DEF Statuses
  <2>5. InvitesOK'
    BY <2>1, <2>2, <2>3, <2>4, InviteKeeps
  <2>6. MembersOK' /\ ClerksOK' /\ AloneOK'
    BY <2>1, <2>2 DEF MembersOK, ClerksOK, AloneOK, Counted, Company
  <2> QED BY <2>1, <2>2, <2>5, <2>6 DEF MembersInv, RowsOK
<1>2. CASE UNCHANGED membersVars
  BY <1>2 DEF membersVars, MembersInv, RowsOK, MembersOK, InvitesOK, ClerksOK, AloneOK, Counted,
     Company
<1>3. ASSUME NEW c \in Clerks, NEW m \in members, BeginChange(c, "remove", m, m.role)
      PROVE  MembersInv'
  <2>1. m.role \in Roles
    BY DEF MembersInv, RowsOK, MembersOK
  <2> QED BY <1>3, <2>1, ChangeSteps
<1>4. ASSUME NEW c \in Clerks, NEW m \in members, NEW r \in Roles, BeginChange(c, "retitle", m, r)
      PROVE  MembersInv'
  BY <1>4, ChangeSteps
<1>5. ASSUME NEW c \in Clerks, CountForRemoval(c) \/ Remove(c) \/ ChangeRole(c) PROVE MembersInv'
  BY <1>5, ChangeSteps
<1> QED BY <1>1, <1>2, <1>3, <1>4, <1>5, SeatSteps, AcceptSteps DEF MembersNext

\* In every behaviour.
LEMMA MembersInvariant == MembersSpec => []MembersInv
  BY InitMembersInv, NextMembersInv, PTL DEF MembersSpec

\* The rows keep their shape, however the requests that write them overlap: one
\* membership per person, and no two rows with one id (the unique keys of
\* OrganizationMember and OrganizationInvite).
THEOREM MembersTypes == MembersSpec => []MembersTypeOK
<1>1. MembersInv => MembersTypeOK
  <2> SUFFICES ASSUME MembersInv PROVE MembersTypeOK
    OBVIOUS
  <2>1. ids \in 1..MaxIds /\ MaxIds \in Nat
    BY MembersAssumption DEF MembersInv, RowsOK
  <2>2. members \subseteq [user : People, role : Roles, since : 1..MaxIds]
    <3> SUFFICES ASSUME NEW m \in members
                 PROVE  m \in [user : People, role : Roles, since : 1..MaxIds]
      OBVIOUS
    <3>1. m \in [user : People, role : Roles, since : 1..ids]
      BY DEF MembersInv, RowsOK, MembersOK
    <3>2. m.since \in 1..MaxIds
      BY <2>1, <3>1
    <3> QED BY <3>1, <3>2
  <2>3. \A p \in People : invites[p] \in [id : 0..ids, status : Statuses]
    BY DEF MembersInv, RowsOK, InvitesOK
  <2> QED BY <2>1, <2>2, <2>3 DEF MembersInv, RowsOK, MembersOK, MembersTypeOK, Statuses
<1> QED BY <1>1, MembersInvariant, PTL

\* "Cannot remove the last member.": for any number of requests, a workspace
\* loses its last members only to removals that counted side by side
\* (settings.ts counts the members and deletes one afterwards).
THEOREM LastMemberStays == MembersSpec => EmptyOnlySideBySide
<1>1. MembersInv /\ [MembersNext]_membersVars =>
        [members # {} /\ members' = {} =>
           \E c \in Clerks : Counted(c) /\ clerk[c].counted = "together"]_membersVars
  <2> SUFFICES ASSUME MembersInv, MembersNext, members # {}, members' = {}
               PROVE  \E c \in Clerks : Counted(c) /\ clerk[c].counted = "together"
    BY DEF membersVars
  <2>0. MembersOK /\ InvitesOK /\ ClerksOK /\ AloneOK /\ ids \in 1..MaxIds
    BY DEF MembersInv, RowsOK
  <2>1. PICK c \in Clerks : Remove(c)
    <3>1. ASSUME NEW d \in Clerks, ChangeRole(d) PROVE FALSE
      BY <3>1 DEF ChangeRole
    <3>2. ASSUME NEW p, Enrol(p) PROVE FALSE
      BY <3>2 DEF Enrol
    <3> QED BY <3>1, <3>2 DEF MembersNext, BeginSeat, CountHalf, FindPerson, WriteInvite,
               WriteMember, BeginAccept, BeginRevoke, LookForMember, CloseInvite, JoinByInvite,
               RegisterByInvite, Revoke, BeginChange, CountForRemoval, Expire
  <2>2. Counted(c) /\ members' = {m \in members : m.since # clerk[c].since}
    BY <2>1 DEF Remove
  <2>3. clerk[c] \in Changing /\ clerk[c].counted # "no"
    BY <2>0, <2>2, ClerkKinds DEF Counted
  <2>4. clerk[c].counted # "alone"
    <3> SUFFICES ASSUME clerk[c].counted = "alone" PROVE FALSE
      OBVIOUS
    <3>1. PICK m, n \in members : m # n
      BY <2>0, <2>2 DEF AloneOK, Company
    <3>2. m.since # n.since
      BY <2>0, <3>1 DEF MembersOK
    <3> QED BY <2>2, <3>1, <3>2
  <2> QED BY <2>2, <2>3, <2>4 DEF Changing
<1> QED BY <1>1, MembersInvariant, PTL DEF MembersSpec, EmptyOnlySideBySide

\* Nobody enters by a withdrawn invitation: acceptance names a row by its id and
\* marks it in the transaction that writes the membership (orgInvite.ts).
THEOREM InvitationsAdmit == MembersSpec => NobodyJoinsUninvited
<1> DEFINE Admitted(m) ==
      \/ \E c \in Clerks : /\ clerk[c].op = "write" /\ clerk[c].what = "add"
                           /\ clerk[c].who = m.user
                           /\ clerk'[c] = Idle
      \/ invites[m.user] # NoInvite /\ invites'[m.user].status = "accepted"
<1>1. MembersInv /\ [MembersNext]_membersVars =>
        [\A m \in members' : m.user \notin Joined => Admitted(m)]_membersVars
  <2> SUFFICES ASSUME MembersInv, MembersNext, NEW m \in members', m.user \notin Joined
               PROVE  Admitted(m)
    BY DEF membersVars
  <2>0. MembersOK /\ InvitesOK /\ ClerksOK /\ ids \in 1..MaxIds
    BY DEF MembersInv, RowsOK
  <2>1. PICK c \in Clerks : WriteMember(c) \/ JoinByInvite(c) \/ RegisterByInvite(c)
    <3>1. ASSUME NEW d \in Clerks, ChangeRole(d) PROVE FALSE
      <4>1. PICK n \in members :
              m = IF n.since = clerk[d].since THEN [n EXCEPT !.role = clerk[d].role] ELSE n
        BY <3>1 DEF ChangeRole
      <4>2. n \in [user : People, role : Roles, since : 1..ids]
        BY <2>0 DEF MembersOK
      <4>3. m.user = n.user
        BY <4>1, <4>2
      <4> QED BY <4>3 DEF Joined
    <3>2. ASSUME members' \subseteq members PROVE FALSE
      BY <3>2 DEF Joined
    <3>3. ASSUME NEW d \in Clerks, Remove(d) PROVE FALSE
      BY <3>2, <3>3 DEF Remove
    <3> QED BY <3>1, <3>2, <3>3 DEF MembersNext, BeginSeat, CountHalf, FindPerson, WriteInvite,
               BeginAccept, BeginRevoke, LookForMember, CloseInvite, Revoke, BeginChange,
               CountForRemoval, Expire
  <2>2. CASE WriteMember(c)
    <3>1. /\ clerk[c].op = "write" /\ clerk[c].what = "add" /\ Enrol(clerk[c].who) /\ Answer(c)
      BY <2>2 DEF WriteMember
    <3>2. clerk[c].who \in People
      BY <2>0, <3>1, ClerkKinds DEF Writing
    <3>3. m.user = clerk[c].who
      BY <2>0, <3>1, <3>2, EnrolKeeps
    <3>4. clerk'[c] = Idle
      BY <2>0, <3>1 DEF Answer, ClerksOK
    <3> QED BY <3>1, <3>3, <3>4
  <2>3. CASE JoinByInvite(c) \/ RegisterByInvite(c)
    <3>1. clerk[c] \in Accepting
      BY <2>0, <2>3, ClerkKinds DEF JoinByInvite, RegisterByInvite
    <3>2. clerk[c].who \in People /\ clerk[c].id \in 1..MaxIds
      BY <3>1 DEF Accepting
    <3>3. Commit(c) /\ MarkAccepted(c) /\ Enrol(clerk[c].who)
      <4>1. members' # members
        BY DEF Joined
      <4> QED BY <2>3, <4>1 DEF JoinByInvite, RegisterByInvite
    <3>4. m.user = clerk[c].who
      BY <2>0, <3>2, <3>3, EnrolKeeps
    <3>5. invites[m.user].id # 0
      BY <3>2, <3>3, <3>4, MembersAssumption DEF Commit, StillInvited
    <3>6. invites[m.user] # NoInvite
      BY <3>5 DEF NoInvite
    <3>7. invites[m.user] \in [id : 0..ids, status : Statuses]
      BY <2>0, <3>2, <3>4 DEF InvitesOK
    <3>8. invites'[m.user].status = "accepted"
      BY <2>0, <3>2, <3>3, <3>4, <3>7 DEF MarkAccepted, InvitesOK
    <3> QED BY <3>6, <3>8
  <2> QED BY <2>1, <2>2, <2>3
<1> QED BY <1>1, MembersInvariant, PTL DEF MembersSpec, NobodyJoinsUninvited

-----------------------------------------------------------------------------
(* Who keeps a seat                                                        *)

\* Who takes a seat before m.
Above(m) == {n \in members : Before(n, m)}

\* Among numbers there is a least.
LEMMA LeastOf ==
    ASSUME NEW T \in SUBSET Nat, T # {}
    PROVE  \E x \in T : \A y \in T : x <= y
<1> DEFINE R == OpToRel(<, Nat)
<1>1. IsWellFoundedOn(R, Nat)
  BY NatLessThanWellFounded
<1>2. \A x, y \in Nat : y < x => <<y, x>> \in R
  BY DEF OpToRel
<1> HIDE DEF R
<1>3. PICK x \in T : \A y \in T : ~(<<y, x>> \in R)
  BY <1>1, WFMin
<1>4. \A y \in T : x <= y
  <2> SUFFICES ASSUME NEW y \in T, ~(x <= y) PROVE FALSE
    OBVIOUS
  <2>1. x \in Nat /\ y \in Nat /\ y < x
    OBVIOUS
  <2> QED BY <1>2, <1>3, <2>1
<1> QED BY <1>4

\* The members stand in one row: nobody is before themselves, two are one before
\* the other, and who is before somebody is before all that come after.
LEMMA SeatOrder ==
    ASSUME MembersOK, ids \in Nat
    PROVE  /\ \A m \in members : ~Before(m, m)
           /\ \A m, n \in members : m = n \/ Before(m, n) \/ Before(n, m)
           /\ \A k, m, n \in members : Before(k, m) /\ Before(m, n) => Before(k, n)
<1>1. \A m \in members : m.since \in Nat
  <2>1. \A m \in members : m.since \in 1..ids
    BY DEF MembersOK
  <2> QED BY <2>1
<1>2. \A m, n \in members : m.since = n.since => m = n
  BY DEF MembersOK
<1> QED BY <1>1, <1>2 DEF Before

\* How many are before a member is a number, fewer for who comes earlier.
LEMMA PlaceGrows ==
    ASSUME MembersOK, ids \in Nat
    PROVE  /\ \A m \in members : IsFiniteSet(Above(m)) /\ Cardinality(Above(m)) \in Nat
           /\ \A m, n \in members : Before(m, n) => Cardinality(Above(m)) < Cardinality(Above(n))
<1>1. \A m \in members : IsFiniteSet(Above(m)) /\ Cardinality(Above(m)) \in Nat
  BY FS_Subset, FS_CardinalityType DEF Above, MembersOK
<1>2. ASSUME NEW m \in members, NEW n \in members, Before(m, n)
      PROVE  Cardinality(Above(m)) < Cardinality(Above(n))
  <2>1. Above(m) \cup {m} \subseteq Above(n) /\ m \notin Above(m)
    BY <1>2, SeatOrder DEF Above
  <2>2. Cardinality(Above(m) \cup {m}) = Cardinality(Above(m)) + 1
    BY <1>1, <2>1, FS_AddElement
  <2>3. Cardinality(Above(m) \cup {m}) <= Cardinality(Above(n))
    BY <1>1, <2>1, FS_Subset
  <2> QED BY <1>1, <2>2, <2>3
<1> QED BY <1>1, <1>2

\* No more are seated than there are seats: all of them but the last stand
\* before the last.
LEMMA SeatsSuffice ==
    ASSUME MembersOK, ids \in Nat, NEW limit \in Nat
    PROVE  Cardinality(Seated(limit)) <= limit
<1>1. \A m \in members : m \in Seated(limit) <=> Cardinality(Above(m)) < limit
  BY DEF Seated, Above
<1>2. IsFiniteSet(Seated(limit)) /\ Seated(limit) \subseteq members
  BY FS_Subset DEF Seated, MembersOK
<1>3. CASE Seated(limit) = {}
  BY <1>3, FS_EmptySet
<1>4. CASE Seated(limit) # {}
  <2> DEFINE T == {limit - Cardinality(Above(m)) : m \in Seated(limit)}
  <2>1. T \in SUBSET Nat
    BY <1>1, <1>2, PlaceGrows
  <2>2. T # {}
    BY <1>4
  <2>3. PICK x \in T : \A y \in T : x <= y
    BY <2>1, <2>2, LeastOf
  <2>4. PICK m \in Seated(limit) : x = limit - Cardinality(Above(m))
    BY <2>3
  <2>5. \A n \in Seated(limit) : Cardinality(Above(n)) <= Cardinality(Above(m))
    <3> SUFFICES ASSUME NEW n \in Seated(limit)
                 PROVE  Cardinality(Above(n)) <= Cardinality(Above(m))
      OBVIOUS
    <3>1. limit - Cardinality(Above(m)) <= limit - Cardinality(Above(n))
      BY <2>3, <2>4
    <3>2. Cardinality(Above(m)) \in Nat /\ Cardinality(Above(n)) \in Nat
      BY <1>2, PlaceGrows
    <3> QED BY <3>1, <3>2
  <2>6. Seated(limit) \subseteq Above(m) \cup {m}
    <3> SUFFICES ASSUME NEW n \in Seated(limit), n # m PROVE n \in Above(m)
      OBVIOUS
    <3>1. m \in members /\ n \in members
      BY <1>2
    <3>2. Cardinality(Above(m)) \in Nat /\ Cardinality(Above(n)) \in Nat
      BY <3>1, PlaceGrows
    <3>3. ~Before(m, n)
      BY <2>5, <3>1, <3>2, PlaceGrows
    <3> QED BY <3>1, <3>3, SeatOrder DEF Above
  <2>7. m \in members /\ Cardinality(Above(m)) < limit
    BY <1>1, <1>2
  <2>8. IsFiniteSet(Above(m)) /\ Cardinality(Above(m)) \in Nat /\ m \notin Above(m)
    BY <2>7, PlaceGrows, SeatOrder DEF Above
  <2>9. /\ IsFiniteSet(Above(m) \cup {m})
        /\ Cardinality(Above(m) \cup {m}) = Cardinality(Above(m)) + 1
    BY <2>8, FS_AddElement
  <2>10. Cardinality(Seated(limit)) <= Cardinality(Above(m) \cup {m})
    BY <2>6, <2>9, FS_Subset
  <2>11. Cardinality(Seated(limit)) \in Nat
    BY <1>2, FS_CardinalityType
  <2> QED BY <2>7, <2>8, <2>9, <2>10, <2>11
<1> QED BY <1>3, <1>4

\* A member seated lets everybody before it sit as well.
LEMMA SeatsFromTheFront ==
    ASSUME MembersOK, ids \in Nat, NEW limit \in Nat, NEW m \in Seated(limit),
           NEW n \in members, Before(n, m)
    PROVE  n \in Seated(limit)
<1>1. m \in members /\ Cardinality(Above(m)) < limit
  BY DEF Seated, Above
<1>2. /\ Cardinality(Above(n)) \in Nat /\ Cardinality(Above(m)) \in Nat
      /\ Cardinality(Above(n)) < Cardinality(Above(m))
  BY <1>1, PlaceGrows
<1>3. Cardinality(Above(n)) < limit
  BY <1>1, <1>2
<1> QED BY <1>3 DEF Seated, Above

\* The oldest admin stands at the very front.
LEMMA OldestAdminFirst ==
    ASSUME MembersOK, ids \in Nat, Admins # {}
    PROVE  \E a \in Admins : Above(a) = {}
<1>1. \A m \in members : m.since \in Nat
  <2>1. \A m \in members : m.since \in 1..ids
    BY DEF MembersOK
  <2> QED BY <2>1
<1> DEFINE T == {a.since : a \in Admins}
<1>2. T \in SUBSET Nat /\ T # {}
  BY <1>1 DEF Admins
<1>3. PICK x \in T : \A y \in T : x <= y
  BY <1>2, LeastOf
<1>4. PICK a \in Admins : x = a.since
  BY <1>3
<1>5. \A b \in Admins : ~(b.since < a.since)
  BY <1>1, <1>3, <1>4 DEF Admins
<1>6. Above(a) = {}
  BY <1>5 DEF Above, Before, Admins
<1> QED BY <1>6

\* Whatever the plan allows, no more people are served than it pays for; while it
\* pays for anybody and there is an admin, an admin is served; and nobody else
\* is served while an admin is not.
THEOREM AdminsSeated == MembersSpec => []AdminsKeepTheirSeats
<1>1. MembersInv => AdminsKeepTheirSeats
  <2> SUFFICES ASSUME MembersInv, NEW limit \in OtherLimits \cup {SeatLimit}
               PROVE  /\ Cardinality(Served(limit)) <= limit
                      /\ limit > 0 /\ Admins # {} => Served(limit) \cap Admins # {}
                      /\ Admins \subseteq Served(limit) \/ Served(limit) \subseteq Admins
    BY DEF AdminsKeepTheirSeats
  <2>1. MembersOK /\ ids \in Nat /\ limit \in Nat
    BY MembersAssumption DEF MembersInv, RowsOK
  <2>2. CASE Cardinality(members) <= limit
    <3>1. Served(limit) = members /\ Admins \subseteq members
      BY <2>2 DEF Served, Admins
    <3> QED BY <2>2, <3>1
  <2>3. CASE ~(Cardinality(members) <= limit)
    <3>1. Served(limit) = Seated(limit) /\ Seated(limit) \subseteq members
      BY <2>3 DEF Served, Seated
    <3>2. Cardinality(Seated(limit)) <= limit
      BY <2>1, SeatsSuffice
    <3>3. ASSUME limit > 0, Admins # {} PROVE Seated(limit) \cap Admins # {}
      <4>1. PICK a \in Admins : Above(a) = {}
        BY <2>1, <3>3, OldestAdminFirst
      <4>2. Cardinality(Above(a)) = 0
        BY <4>1, FS_EmptySet
      <4>3. a \in Seated(limit)
        BY <3>3, <4>2 DEF Seated, Above, Admins
      <4> QED BY <4>3
    <3>4. ASSUME ~(Admins \subseteq Seated(limit)) PROVE Seated(limit) \subseteq Admins
      <4> SUFFICES ASSUME NEW m \in Seated(limit), m \notin Admins PROVE FALSE
        OBVIOUS
      <4>1. PICK a \in Admins : a \notin Seated(limit)
        BY <3>4
      <4>2. a \in members /\ Before(a, m)
        BY <3>1 DEF Admins, Before
      <4> QED BY <2>1, <4>1, <4>2, SeatsFromTheFront
    <3> QED BY <3>1, <3>2, <3>3, <3>4
  <2> QED BY <2>2, <2>3
<1> QED BY <1>1, MembersInvariant, PTL

-----------------------------------------------------------------------------
(* How many seats are promised                                             *)

\* A request whose count is done and was below the limit brings one more; one
\* whose count is half done still may, if the other half is what it would be with
\* m members; and whoever accepts an invitation that is no longer pending comes
\* in uncounted.
Permitted(c) == clerk[c].op = "write" \/ (Taking(c) /\ clerk[c].left = {})

Hopeful(c, m) ==
    /\ Taking(c)
    /\ \/ clerk[c].left = {"members"} /\ clerk[c].seen + m < SeatLimit
       \/ clerk[c].left = {"pending"} /\ clerk[c].seen + Cardinality(Pending) < SeatLimit

Bringing(m) == {c \in Clerks : Permitted(c) \/ Hopeful(c, m)}

Follows(c, p) == clerk[c].op \in {"accept", "register"} /\ clerk[c].who = p /\ StillInvited(c)
Late == {p \in People \ Pending : \E c \in Clerks : Follows(c, p)}

\* Members can be removed while others count, so the bound is kept for every part
\* of the members that may remain.
SeatsWithin ==
    \A J \in SUBSET Joined :
        Cardinality(Pending) + Cardinality(J \cup Late) + Cardinality(Bringing(Cardinality(J)))
          <= SeatLimit + Cardinality(Clerks) - 1

SeatsInv == MembersInv /\ (~torn => SeatsWithin)

\* What the counts are about is finite; nobody is late and brings somebody with
\* one request; and the more members there are, the fewer may still bring.
SeatSetsOK ==
    /\ IsFiniteSet(Pending) /\ IsFiniteSet(Joined) /\ IsFiniteSet(Late)
    /\ Cardinality(Joined) = Cardinality(members)
    /\ \A m \in Nat : /\ IsFiniteSet(Bringing(m))
                      /\ Cardinality(Late) + Cardinality(Bringing(m)) <= Cardinality(Clerks)
    /\ \A m, n \in Nat : m <= n => Bringing(n) \subseteq Bringing(m)

\* These facts hold wherever the rows and the requests are as they should be.
LEMMA SeatSets == MembersInv => SeatSetsOK
<1> SUFFICES ASSUME MembersInv PROVE SeatSetsOK
  OBVIOUS
<1>0. MembersOK /\ ClerksOK /\ SeatLimit \in Nat /\ IsFiniteSet(Clerks) /\ IsFiniteSet(People)
  BY MembersAssumption DEF MembersInv, RowsOK
<1>1. IsFiniteSet(Pending) /\ IsFiniteSet(Joined) /\ IsFiniteSet(Late)
  <2>1. Pending \subseteq People /\ Late \subseteq People
    BY DEF Pending, Late
  <2>2. Joined \subseteq People
    BY <1>0 DEF Joined, MembersOK
  <2> QED BY <1>0, <2>1, <2>2, FS_Subset
<1>2. Cardinality(Joined) = Cardinality(members)
  <2> DEFINE f == [m \in members |-> m.user]
  <2>1. f \in Surjection(members, Joined)
    BY DEF Surjection, Joined
  <2>2. f \in Injection(members, Joined)
    BY <1>0 DEF Injection, IsInjective, Joined, MembersOK
  <2>3. IsFiniteSet(members)
    BY <1>0 DEF MembersOK
  <2> HIDE DEF f
  <2> QED BY <2>1, <2>2, <2>3, FS_Surjection
<1>3. ASSUME NEW m \in Nat
      PROVE  /\ IsFiniteSet(Bringing(m))
             /\ Cardinality(Late) + Cardinality(Bringing(m)) <= Cardinality(Clerks)
  <2> DEFINE A == {c \in Clerks : clerk[c].op \in {"accept", "register"}}
             f == [p \in Late |-> CHOOSE c \in Clerks : Follows(c, p)]
  <2>1. IsFiniteSet(A) /\ IsFiniteSet(Bringing(m)) /\ A \cup Bringing(m) \subseteq Clerks
    BY <1>0, FS_Subset DEF Bringing
  <2>2. \A p \in Late : f[p] \in A /\ clerk[f[p]].who = p
    <3>1. \A p \in Late : f[p] \in Clerks /\ Follows(f[p], p)
      BY DEF Late
    <3> HIDE DEF f
    <3> QED BY <3>1 DEF Follows
  <2>3. f \in Injection(Late, A)
    <3>1. f \in [Late -> A]
      BY <2>2
    <3> HIDE DEF f
    <3> QED BY <2>2, <3>1 DEF Injection, IsInjective
  <2>4. Cardinality(Late) <= Cardinality(A)
    BY <2>1, <2>3, FS_Injection
  <2>5. A \cap Bringing(m) = {}
    BY DEF Bringing, Permitted, Hopeful, Taking
  <2> HIDE DEF A, f
  <2>6. Cardinality(A \cup Bringing(m)) = Cardinality(A) + Cardinality(Bringing(m))
    <3>1. Cardinality(A \cap Bringing(m)) = 0
      BY <2>5, FS_EmptySet
    <3>2. Cardinality(A) \in Nat /\ Cardinality(Bringing(m)) \in Nat
      BY <2>1, FS_CardinalityType
    <3> QED BY <2>1, <3>1, <3>2, FS_Union
  <2>7. Cardinality(A \cup Bringing(m)) <= Cardinality(Clerks)
    BY <1>0, <2>1, FS_Subset
  <2>8. /\ Cardinality(Late) \in Nat /\ Cardinality(A) \in Nat /\ Cardinality(Clerks) \in Nat
        /\ Cardinality(Bringing(m)) \in Nat
    BY <1>0, <1>1, <2>1, FS_CardinalityType
  <2> QED BY <2>1, <2>4, <2>6, <2>7, <2>8
<1>4. ASSUME NEW m \in Nat, NEW n \in Nat, m <= n, NEW c \in Bringing(n) PROVE c \in Bringing(m)
  <2>1. ASSUME Taking(c) PROVE clerk[c].seen \in Nat
    BY <1>0, <2>1, ClerkKinds DEF Counting, Bringing
  <2>2. clerk[c].seen \in Nat /\ clerk[c].seen + n < SeatLimit => clerk[c].seen + m < SeatLimit
    BY <1>0, <1>4
  <2> QED BY <2>1, <2>2 DEF Bringing, Hopeful
<1> QED BY <1>1, <1>2, <1>3, <1>4 DEF SeatSetsOK

\* And so after a step.
LEMMA SeatSetsNext == MembersInv' => SeatSetsOK'
  BY SeatSets, PTL

\* One seat more is one promise less.
LEMMA PromisesFit ==
    ASSUME NEW P, NEW A, NEW B, NEW P2, NEW A2, NEW B2, NEW p, NEW g, NEW K \in Int,
           IsFiniteSet(P), IsFiniteSet(A), IsFiniteSet(B),
           Cardinality(P) + Cardinality(A) + Cardinality(B) <= K, B2 \subseteq B,
           \/ P2 \subseteq P /\ A2 \subseteq A
           \/ p \in P /\ P2 \subseteq P \ {p} /\ A2 \subseteq A \cup {p}
           \/ g \in B \ B2 /\ P2 \subseteq P \cup {p} /\ A2 \subseteq A
           \/ g \in B \ B2 /\ P2 \subseteq P /\ A2 \subseteq A \cup {p}
    PROVE  Cardinality(P2) + Cardinality(A2) + Cardinality(B2) <= K
<1>1. /\ IsFiniteSet(P \cup {p}) /\ IsFiniteSet(P \ {p}) /\ IsFiniteSet(A \cup {p})
      /\ IsFiniteSet(B \ {g})
      /\ Cardinality(P \cup {p}) <= Cardinality(P) + 1
      /\ Cardinality(A \cup {p}) <= Cardinality(A) + 1
      /\ p \in P => Cardinality(P \ {p}) = Cardinality(P) - 1
      /\ g \in B => Cardinality(B \ {g}) = Cardinality(B) - 1
  <2>1. Cardinality(P) \in Nat /\ Cardinality(A) \in Nat /\ Cardinality(B) \in Nat
    BY FS_CardinalityType
  <2>2. /\ IsFiniteSet(P \cup {p}) /\ IsFiniteSet(P \ {p}) /\ IsFiniteSet(A \cup {p})
        /\ IsFiniteSet(B \ {g})
    BY FS_AddElement, FS_RemoveElement
  <2>3. Cardinality(P \cup {p}) <= Cardinality(P) + 1
    <3>1. \/ Cardinality(P \cup {p}) = Cardinality(P)
          \/ Cardinality(P \cup {p}) = Cardinality(P) + 1
      BY FS_AddElement
    <3> QED BY <2>1, <3>1
  <2>4. Cardinality(A \cup {p}) <= Cardinality(A) + 1
    <3>1. \/ Cardinality(A \cup {p}) = Cardinality(A)
          \/ Cardinality(A \cup {p}) = Cardinality(A) + 1
      BY FS_AddElement
    <3> QED BY <2>1, <3>1
  <2>5. p \in P => Cardinality(P \ {p}) = Cardinality(P) - 1
    BY FS_RemoveElement
  <2>6. g \in B => Cardinality(B \ {g}) = Cardinality(B) - 1
    BY FS_RemoveElement
  <2> QED BY <2>2, <2>3, <2>4, <2>5, <2>6
<1>2. Cardinality(P) \in Nat /\ Cardinality(A) \in Nat /\ Cardinality(B) \in Nat
  BY FS_CardinalityType
<1>3. ASSUME NEW X, NEW Y, IsFiniteSet(Y), X \subseteq Y
      PROVE  Cardinality(X) \in Nat /\ Cardinality(X) <= Cardinality(Y)
  BY <1>3, FS_Subset, FS_CardinalityType
<1>4. Cardinality(B2) \in Nat /\ Cardinality(B2) <= Cardinality(B)
  BY <1>3
<1>5. CASE P2 \subseteq P /\ A2 \subseteq A
  <2>1. /\ Cardinality(P2) \in Nat /\ Cardinality(P2) <= Cardinality(P)
        /\ Cardinality(A2) \in Nat /\ Cardinality(A2) <= Cardinality(A)
    BY <1>3, <1>5
  <2> QED BY <1>2, <1>4, <2>1
<1>6. CASE p \in P /\ P2 \subseteq P \ {p} /\ A2 \subseteq A \cup {p}
  <2>1. /\ Cardinality(P2) \in Nat /\ Cardinality(P2) <= Cardinality(P) - 1
        /\ Cardinality(A2) \in Nat /\ Cardinality(A2) <= Cardinality(A) + 1
    <3>1. /\ Cardinality(P2) \in Nat /\ Cardinality(P2) <= Cardinality(P \ {p})
          /\ Cardinality(A2) \in Nat /\ Cardinality(A2) <= Cardinality(A \cup {p})
      BY <1>1, <1>3, <1>6
    <3>2. Cardinality(A \cup {p}) \in Nat
      BY <1>1, FS_CardinalityType
    <3> QED BY <1>1, <1>2, <1>6, <3>1, <3>2
  <2> QED BY <1>2, <1>4, <2>1
<1>7. CASE g \in B \ B2 /\ P2 \subseteq P \cup {p} /\ A2 \subseteq A
  <2>1. /\ Cardinality(P2) \in Nat /\ Cardinality(P2) <= Cardinality(P) + 1
        /\ Cardinality(A2) \in Nat /\ Cardinality(A2) <= Cardinality(A)
        /\ Cardinality(B2) <= Cardinality(B) - 1
    <3>1. /\ Cardinality(P2) \in Nat /\ Cardinality(P2) <= Cardinality(P \cup {p})
          /\ Cardinality(A2) \in Nat /\ Cardinality(A2) <= Cardinality(A)
          /\ Cardinality(B2) <= Cardinality(B \ {g})
      BY <1>1, <1>3, <1>7
    <3>2. Cardinality(P \cup {p}) \in Nat
      BY <1>1, FS_CardinalityType
    <3> QED BY <1>1, <1>2, <1>7, <3>1, <3>2
  <2> QED BY <1>2, <1>4, <2>1
<1>8. CASE g \in B \ B2 /\ P2 \subseteq P /\ A2 \subseteq A \cup {p}
  <2>1. /\ Cardinality(P2) \in Nat /\ Cardinality(P2) <= Cardinality(P)
        /\ Cardinality(A2) \in Nat /\ Cardinality(A2) <= Cardinality(A) + 1
        /\ Cardinality(B2) <= Cardinality(B) - 1
    <3>1. /\ Cardinality(P2) \in Nat /\ Cardinality(P2) <= Cardinality(P)
          /\ Cardinality(A2) \in Nat /\ Cardinality(A2) <= Cardinality(A \cup {p})
          /\ Cardinality(B2) <= Cardinality(B \ {g})
      BY <1>1, <1>3, <1>8
    <3>2. Cardinality(A \cup {p}) \in Nat
      BY <1>1, FS_CardinalityType
    <3> QED BY <1>1, <1>2, <1>8, <3>1, <3>2
  <2> QED BY <1>2, <1>4, <2>1
<1> QED BY <1>5, <1>6, <1>7, <1>8

\* What the step does to the promised seats: somebody drops out of them, comes in
\* at the place kept for him, or takes the seat that request g brings.
SeatSettled(p, g) ==
    \/ Pending' \subseteq Pending /\ Joined' \subseteq Joined /\ Late' \subseteq Late
    \/ Pending' \subseteq Pending /\ Late' \subseteq Late /\ p \in Late
    \/ p \in Pending /\ Pending' \subseteq Pending \ {p}
    \/ /\ \A m \in Nat : g \in Bringing(m) /\ g \notin Bringing(m)'
       /\ Late' \subseteq Late
       /\ \/ Pending' \subseteq Pending
          \/ Pending' \subseteq Pending \cup {p} /\ Joined' \subseteq Joined

\* A step that settles what was promised, and gives new hope only where there is
\* room, keeps the bound.
LEMMA SeatsMove ==
    ASSUME MembersInv, MembersInv', SeatsWithin, NEW p, NEW g, SeatSettled(p, g),
           Joined' \subseteq Joined \cup {p}, Late' \subseteq Late \cup {p},
           \A m \in 0..Cardinality(Joined') :
              Bringing(m)' \subseteq Bringing(m) \/ Cardinality(Pending)' + m < SeatLimit
    PROVE  SeatsWithin'
<1>0. SeatSetsOK /\ SeatSetsOK' /\ SeatLimit \in Nat /\ IsFiniteSet(Clerks)
  BY SeatSets, SeatSetsNext, MembersAssumption
<1> DEFINE K == SeatLimit + Cardinality(Clerks) - 1
<1>1. K \in Int
  BY <1>0, FS_CardinalityType
<1> SUFFICES ASSUME NEW J2 \in SUBSET (Joined')
             PROVE  Cardinality(Pending') + Cardinality(J2 \cup Late')
                       + Cardinality(Bringing(Cardinality(J2))') <= K
  BY DEF SeatsWithin
<1> DEFINE n == Cardinality(J2)
<1>2. IsFiniteSet(J2) /\ n \in 0..Cardinality(Joined') /\ n \in Nat
  <2>1. IsFiniteSet(Joined') /\ J2 \subseteq Joined'
    BY <1>0 DEF SeatSetsOK
  <2>2. IsFiniteSet(J2) /\ Cardinality(J2) <= Cardinality(Joined')
    BY <2>1, FS_Subset
  <2> QED BY <2>1, <2>2, FS_CardinalityType
<1>3. CASE Cardinality(Pending)' + n < SeatLimit
  <2> DEFINE a == Cardinality(J2 \cup Late')
             l == Cardinality(Late')
             b == Cardinality(Bringing(n)')
             q == Cardinality(Pending')
  <2>1. IsFiniteSet(Late') /\ IsFiniteSet(Bringing(n)') /\ IsFiniteSet(Pending')
        /\ l + b <= Cardinality(Clerks)
    BY <1>0, <1>2 DEF SeatSetsOK
  <2>2. a \in Nat /\ l \in Nat /\ b \in Nat /\ q \in Nat /\ Cardinality(Clerks) \in Nat
    BY <1>0, <1>2, <2>1, FS_Union, FS_CardinalityType
  <2>3. a <= n + l
    <3>1. /\ IsFiniteSet(J2 \cap Late')
          /\ Cardinality(J2 \cup Late') = n + l - Cardinality(J2 \cap Late')
      BY <1>2, <2>1, FS_Union, FS_Subset
    <3>2. Cardinality(J2 \cap Late') \in Nat
      BY <3>1, FS_CardinalityType
    <3> QED BY <1>2, <2>2, <3>1, <3>2
  <2>4. q + n < SeatLimit
    BY <1>3
  <2> HIDE DEF a, l, b, q, n
  <2> QED BY <1>0, <1>2, <2>1, <2>2, <2>3, <2>4 DEF a, b, q, n
<1>4. CASE ~(Cardinality(Pending)' + n < SeatLimit)
  <2> DEFINE J == J2 \cap Joined
             m == Cardinality(J)
             A == J \cup Late
             A2 == J2 \cup Late'
             B == Bringing(m)
             B2 == Bringing(n)'
             P == Pending
             P2 == Pending'
  <2>1. m \in Nat /\ m <= n /\ IsFiniteSet(J)
    BY <1>2, FS_Subset, FS_CardinalityType
  <2>2. B2 \subseteq B
    <3>1. Bringing(n)' \subseteq Bringing(n)
      BY <1>2, <1>4
    <3>2. Bringing(n) \subseteq Bringing(m)
      BY <1>0, <1>2, <2>1 DEF SeatSetsOK
    <3> QED BY <3>1, <3>2
  <2>3. IsFiniteSet(P) /\ IsFiniteSet(A) /\ IsFiniteSet(B)
    <3>1. IsFiniteSet(P) /\ IsFiniteSet(Late) /\ IsFiniteSet(B)
      BY <1>0, <2>1 DEF SeatSetsOK
    <3> QED BY <2>1, <3>1, FS_Union
  <2>4. Cardinality(P) + Cardinality(A) + Cardinality(B) <= K
    BY DEF SeatsWithin
  <2>5. J2 \subseteq J \cup {p} /\ (Joined' \subseteq Joined => J2 \subseteq J)
    OBVIOUS
  <2>6. \/ P2 \subseteq P /\ A2 \subseteq A
        \/ p \in P /\ P2 \subseteq P \ {p} /\ A2 \subseteq A \cup {p}
        \/ g \in B \ B2 /\ P2 \subseteq P \cup {p} /\ A2 \subseteq A
        \/ g \in B \ B2 /\ P2 \subseteq P /\ A2 \subseteq A \cup {p}
    <3>1. ASSUME \A k \in Nat : g \in Bringing(k) /\ g \notin Bringing(k)' PROVE g \in B \ B2
      BY <1>2, <2>1, <3>1
    <3> HIDE DEF J, B, B2, n, m
    <3> QED BY <2>5, <3>1 DEF SeatSettled
  <2> HIDE DEF A, A2, B, B2, P, P2, J, m, n, K
  <2>7. Cardinality(P2) + Cardinality(A2) + Cardinality(B2) <= K
    BY <1>1, <2>2, <2>3, <2>4, <2>6, PromisesFit
  <2> QED BY <2>7 DEF P2, A2, B2, n
<1> QED BY <1>3, <1>4

\* A request that moves on leaves to the others what they bring, unless an
\* invitation is withdrawn between the halves of their counts.
LEMMA OthersBring ==
    ASSUME MembersInv, MembersInv', NEW c,
           \A d \in Clerks \ {c} : clerk'[d] = clerk[d],
           Torn => Pending \subseteq Pending'
    PROVE  \A m \in Nat : Bringing(m)' \subseteq Bringing(m) \cup {c}
<1> SUFFICES ASSUME NEW m \in Nat, NEW d \in Clerks \ {c}, d \in Bringing(m)' PROVE d \in Bringing(m)
  BY DEF Bringing
<1>1. clerk'[d] = clerk[d] /\ ClerksOK
  BY DEF MembersInv
<1>2. CASE Permitted(d)'
  BY <1>1, <1>2 DEF Permitted, Taking, Bringing
<1>3. CASE Hopeful(d, m)'
  <2>1. Taking(d) /\ clerk[d].left = clerk'[d].left /\ clerk[d].seen = clerk'[d].seen
    BY <1>1, <1>3 DEF Hopeful, Taking
  <2>2. CASE clerk[d].left = {"members"}
    BY <1>3, <2>1, <2>2 DEF Hopeful, Bringing
  <2>3. CASE clerk[d].left = {"pending"}
    <3>1. Pending \subseteq Pending'
      BY <2>1, <2>3 DEF Torn
    <3>2. IsFiniteSet(Pending') /\ IsFiniteSet(Pending)
      BY SeatSets, SeatSetsNext DEF SeatSetsOK
    <3>3. /\ Cardinality(Pending) <= Cardinality(Pending') /\ Cardinality(Pending) \in Nat
          /\ Cardinality(Pending') \in Nat
      BY <3>1, <3>2, FS_Subset, FS_CardinalityType
    <3>4. clerk[d].seen \in Nat /\ SeatLimit \in Nat
      BY <1>1, <2>1, ClerkKinds, MembersAssumption DEF Counting
    <3>5. clerk[d].seen + Cardinality(Pending') < SeatLimit
      BY <1>3, <2>1, <2>3 DEF Hopeful
    <3>6. clerk[d].seen + Cardinality(Pending) < SeatLimit
      BY <3>3, <3>4, <3>5
    <3> QED BY <2>1, <2>3, <3>6 DEF Hopeful, Bringing
  <2> QED BY <1>3, <2>1, <2>2, <2>3 DEF Hopeful
<1> QED BY <1>2, <1>3 DEF Bringing

\* Nobody is late who was not: the invitations stay and no request follows one it
\* did not follow.
LEMMA LateStays ==
    ASSUME UNCHANGED invites, NEW c, \A d \in Clerks \ {c} : clerk'[d] = clerk[d],
           \A p \in People \ Pending : Follows(c, p)' => Follows(c, p)
    PROVE  Late' \subseteq Late /\ Pending' = Pending
<1>1. Pending' = Pending
  BY DEF Pending
<1>2. \A p \in People \ Pending, d \in Clerks : Follows(d, p)' => Follows(d, p)
  BY DEF Follows, StillInvited
<1> QED BY <1>1, <1>2 DEF Late

\* A request that only moves on keeps the bound.
LEMMA QuietSeats ==
    ASSUME MembersInv, MembersInv', SeatsWithin, NEW c \in Clerks,
           UNCHANGED invites, Joined' \subseteq Joined,
           \A d \in Clerks \ {c} : clerk'[d] = clerk[d],
           \A p \in People \ Pending : Follows(c, p)' => Follows(c, p),
           \A m \in 0..Cardinality(Joined) :
              \/ c \notin Bringing(m)' \/ c \in Bringing(m)
              \/ Cardinality(Pending) + m < SeatLimit
    PROVE  SeatsWithin'
<1>1. Late' \subseteq Late /\ Pending' = Pending
  BY LateStays
<1>2. \A m \in Nat : Bringing(m)' \subseteq Bringing(m) \cup {c}
  BY <1>1, OthersBring
<1>3. Cardinality(Joined') <= Cardinality(Joined) /\ Cardinality(Joined) \in Nat
      /\ Cardinality(Joined') \in Nat
  BY SeatSets, SeatSetsNext, FS_Subset, FS_CardinalityType DEF SeatSetsOK
<1>4. ASSUME NEW m \in 0..Cardinality(Joined')
      PROVE  Bringing(m)' \subseteq Bringing(m) \/ Cardinality(Pending)' + m < SeatLimit
  <2>1. m \in Nat /\ m \in 0..Cardinality(Joined)
    BY <1>3
  <2>2. Bringing(m)' \subseteq Bringing(m) \cup {c}
    BY <1>2, <2>1
  <2>3. \/ c \notin Bringing(m)' \/ c \in Bringing(m)
        \/ Cardinality(Pending) + m < SeatLimit
    BY <2>1
  <2> QED BY <1>1, <2>2, <2>3
<1>5. SeatSettled(Founder, c)
  BY <1>1 DEF SeatSettled
<1> QED BY <1>1, <1>4, <1>5, SeatsMove

\* A request that is answered, or takes up something else, brings nobody and
\* follows no invitation.
LEMMA SeatAnswered ==
    ASSUME NEW c \in Clerks, clerk'[c].op \notin {"write", "invite", "add"}
    PROVE  \A m \in Nat : c \notin Bringing(m)'
  BY DEF Bringing, Permitted, Hopeful, Taking

\* Inviting and adding keep the bound: what a request brings was counted.
LEMMA SeatStepsFit ==
    ASSUME MembersInv, MembersInv', SeatsWithin, NEW c \in Clerks,
           \/ \E op \in {"invite", "add"}, p \in People : BeginSeat(c, op, p)
           \/ \E half \in {"members", "pending"} : CountHalf(c, half)
           \/ FindPerson(c) \/ WriteInvite(c) \/ WriteMember(c)
    PROVE  SeatsWithin'
<1>0. /\ ClerksOK /\ MembersOK /\ InvitesOK /\ ids \in 1..MaxIds /\ SeatLimit \in Nat
      /\ clerk \in [Clerks -> ClerkRecords]
  BY MembersAssumption DEF MembersInv, RowsOK, ClerksOK
<1>1. ASSUME UNCHANGED <<members, invites>>, \A d \in Clerks \ {c} : clerk'[d] = clerk[d],
             clerk'[c].op \notin {"accept", "register"},
             \A m \in 0..Cardinality(Joined) :
                \/ c \notin Bringing(m)' \/ c \in Bringing(m)
                \/ Cardinality(Pending) + m < SeatLimit
      PROVE  SeatsWithin'
  <2>1. Joined' \subseteq Joined
    BY <1>1 DEF Joined
  <2>2. \A p \in People \ Pending : Follows(c, p)' => Follows(c, p)
    BY <1>1 DEF Follows
  <2> QED BY <1>1, <2>1, <2>2, QuietSeats
<1>2. ASSUME Answer(c)
      PROVE  /\ \A d \in Clerks \ {c} : clerk'[d] = clerk[d]
             /\ clerk'[c].op = "idle" /\ \A m \in Nat : c \notin Bringing(m)'
  <2>1. /\ \A d \in Clerks \ {c} : clerk'[d] = clerk[d]
        /\ clerk'[c].op = "idle"
    BY <1>0, <1>2 DEF Answer, Idle
  <2> QED BY <2>1, SeatAnswered
<1>3. ASSUME Answer(c), UNCHANGED <<members, invites>> PROVE SeatsWithin'
  <2>1. \A m \in 0..Cardinality(Joined) : c \notin Bringing(m)'
    BY <1>2, <1>3
  <2> QED BY <1>1, <1>2, <1>3, <2>1
<1>4. ASSUME NEW op \in {"invite", "add"}, NEW p \in People, BeginSeat(c, op, p) PROVE SeatsWithin'
  <2>1. /\ UNCHANGED <<members, invites>> /\ \A d \in Clerks \ {c} : clerk'[d] = clerk[d]
        /\ clerk'[c].op = op /\ clerk'[c].left = {"members", "pending"}
    BY <1>0, <1>4 DEF BeginSeat
  <2>2. clerk'[c].left # {} /\ clerk'[c].left # {"members"} /\ clerk'[c].left # {"pending"}
    BY <2>1
  <2>3. \A m \in Nat : c \notin Bringing(m)'
    BY <2>1, <2>2 DEF Bringing, Permitted, Hopeful
  <2> QED BY <1>1, <2>1, <2>3
<1>5. ASSUME NEW half \in {"members", "pending"}, CountHalf(c, half) PROVE SeatsWithin'
  <2> DEFINE n == Cardinality(IF half = "members" THEN members ELSE Pending)
             seen == clerk[c].seen + n
             left == clerk[c].left \ {half}
  <2>1. /\ UNCHANGED <<members, invites>> /\ Taking(c) /\ half \in clerk[c].left
        /\ IF seen >= SeatLimit
             THEN Answer(c)
             ELSE clerk' = [clerk EXCEPT ![c].left = left,
                                         ![c].seen = IF left = {} THEN 0 ELSE seen]
    BY <1>5 DEF CountHalf, Full
  <2>2. CASE seen >= SeatLimit
    BY <1>3, <2>1, <2>2
  <2>3. CASE ~(seen >= SeatLimit)
    <3>1. clerk[c] \in Counting
      BY <1>0, <2>1, ClerkKinds
    <3>2. /\ \A d \in Clerks \ {c} : clerk'[d] = clerk[d]
          /\ clerk'[c].op = clerk[c].op /\ clerk'[c].left = left
          /\ clerk'[c].seen = IF left = {} THEN 0 ELSE seen
      BY <1>0, <2>1, <2>3, <3>1 DEF Counting
    <3>3. /\ IsFiniteSet(Pending) /\ IsFiniteSet(Joined)
          /\ Cardinality(Joined) = Cardinality(members)
      BY SeatSets DEF SeatSetsOK
    <3>4. Cardinality(Pending) \in Nat /\ Cardinality(members) \in Nat /\ clerk[c].seen \in Nat
      BY <3>1, <3>3, FS_CardinalityType DEF Counting
    <3>5. ASSUME NEW m \in 0..Cardinality(Joined), c \in Bringing(m)', c \notin Bringing(m)
          PROVE  Cardinality(Pending) + m < SeatLimit
      <4>0. m \in Nat /\ m <= Cardinality(members)
        BY <3>3, <3>4, <3>5
      <4>1. clerk[c].left \in SUBSET {"members", "pending"} /\ clerk'[c].op \in {"invite", "add"}
        BY <3>1, <3>2 DEF Counting
      <4>2. CASE half = "members"
        <5>1. clerk[c].seen + Cardinality(members) < SeatLimit
          BY <1>0, <2>3, <3>4, <4>2
        <5>2. clerk[c].seen + m < SeatLimit
          BY <1>0, <3>4, <4>0, <5>1
        <5>3. clerk[c].left # {"members"}
          BY <2>1, <3>5, <5>2 DEF Bringing, Hopeful
        <5>4. left = {"pending"}
          BY <2>1, <4>1, <4>2, <5>3
        <5>5. clerk'[c].seen + Cardinality(Pending)' < SeatLimit
          BY <3>2, <3>5, <4>1, <5>4 DEF Bringing, Permitted, Hopeful
        <5>6. Pending' = Pending
          BY <2>1 DEF Pending
        <5>7. clerk[c].seen + Cardinality(members) + Cardinality(Pending) < SeatLimit
          BY <3>2, <4>2, <5>4, <5>5, <5>6
        <5> QED BY <1>0, <3>4, <4>0, <5>7
      <4>3. CASE half = "pending"
        <5>1. clerk[c].seen + Cardinality(Pending) < SeatLimit
          BY <1>0, <2>3, <3>4, <4>3
        <5>2. clerk[c].left # {"pending"}
          BY <2>1, <3>5, <5>1 DEF Bringing, Hopeful
        <5>3. left = {"members"}
          BY <2>1, <4>1, <4>3, <5>2
        <5>4. clerk'[c].seen + m < SeatLimit
          BY <3>2, <3>5, <4>1, <5>3 DEF Bringing, Permitted, Hopeful
        <5>5. clerk[c].seen + Cardinality(Pending) + m < SeatLimit
          BY <3>2, <4>3, <5>3, <5>4
        <5> QED BY <1>0, <3>4, <4>0, <5>5
      <4> QED BY <4>2, <4>3
    <3>6. clerk'[c].op \notin {"accept", "register"}
      BY <2>1, <3>2 DEF Taking
    <3> QED BY <1>1, <2>1, <3>2, <3>5, <3>6
  <2> QED BY <2>2, <2>3
<1>6. ASSUME FindPerson(c) PROVE SeatsWithin'
  <2>1. /\ UNCHANGED <<members, invites>> /\ Taking(c) /\ clerk[c].left = {}
        /\ \/ Answer(c)
           \/ clerk' = [clerk EXCEPT ![c] = [op |-> "write", what |-> @.op, who |-> @.who]]
    BY <1>6 DEF FindPerson
  <2>2. CASE Answer(c)
    BY <1>3, <2>1, <2>2
  <2>3. CASE clerk' = [clerk EXCEPT ![c] = [op |-> "write", what |-> @.op, who |-> @.who]]
    <3>1. clerk'[c].op = "write" /\ \A d \in Clerks \ {c} : clerk'[d] = clerk[d]
      BY <1>0, <2>3
    <3>2. \A m \in Nat : c \in Bringing(m)
      BY <2>1 DEF Bringing, Permitted
    <3> QED BY <1>1, <2>1, <3>1, <3>2
  <2> QED BY <2>1, <2>2, <2>3
<1>7. ASSUME clerk[c].op = "write", Answer(c), NEW p \in People, Late' \subseteq Late,
             \/ Pending' = Pending /\ Joined' \subseteq Joined \cup {p}
             \/ Pending' = Pending \cup {p} /\ Joined' \subseteq Joined
      PROVE  SeatsWithin'
  <2>1. \A m \in Nat : c \in Bringing(m) /\ c \notin Bringing(m)'
    BY <1>2, <1>7 DEF Bringing, Permitted
  <2>2. SeatSettled(p, c)
    BY <1>7, <2>1 DEF SeatSettled
  <2>3. \A m \in Nat : Bringing(m)' \subseteq Bringing(m) \cup {c}
    BY <1>2, <1>7, OthersBring
  <2>4. \A m \in 0..Cardinality(Joined') : Bringing(m)' \subseteq Bringing(m)
    BY <2>1, <2>3
  <2> QED BY <1>7, <2>2, <2>4, SeatsMove
<1>8. ASSUME WriteInvite(c) PROVE SeatsWithin'
  <2>1. clerk[c].op = "write" /\ Answer(c) /\ UNCHANGED members
    BY <1>8 DEF WriteInvite
  <2>2. PICK p \in People : clerk[c].who = p
    BY <1>0, <2>1, ClerkKinds DEF Writing
  <2>3. PICK i : invites' = [invites EXCEPT ![p] = [id |-> i, status |-> "open"]]
    BY <1>8, <2>2 DEF WriteInvite
  <2>4. invites'[p].status = "open" /\ invites'[p] # NoInvite
        /\ \A q \in People : q # p => invites'[q] = invites[q]
    BY <1>0, <2>3 DEF InvitesOK, NoInvite
  <2>5. Pending' = Pending \cup {p}
    BY <2>2, <2>4 DEF Pending
  <2>6. Late' \subseteq Late
    <3> SUFFICES ASSUME NEW q \in People \ Pending', NEW d \in Clerks, Follows(d, q)'
                 PROVE  q \notin Pending /\ Follows(d, q)
      BY DEF Late
    <3>1. d # c
      BY <1>2, <2>1 DEF Follows
    <3>2. clerk'[d] = clerk[d] /\ invites'[q] = invites[q]
      BY <1>2, <2>1, <2>4, <2>5, <3>1
    <3> QED BY <2>5, <3>2 DEF Follows, StillInvited
  <2>7. Joined' \subseteq Joined
    BY <2>1 DEF Joined
  <2> QED BY <1>7, <2>1, <2>5, <2>6, <2>7
<1>9. ASSUME WriteMember(c) PROVE SeatsWithin'
  <2>1. clerk[c].op = "write" /\ Enrol(clerk[c].who) /\ Answer(c) /\ UNCHANGED invites
    BY <1>9 DEF WriteMember
  <2>2. PICK p \in People : clerk[c].who = p
    BY <1>0, <2>1, ClerkKinds DEF Writing
  <2>3. \A m \in members' : m.user \notin Joined => m.user = p
    BY <1>0, <2>1, <2>2, EnrolKeeps
  <2>4. Joined' \subseteq Joined \cup {p}
    BY <2>3 DEF Joined
  <2>5. \A q \in People \ Pending : Follows(c, q)' => Follows(c, q)
    BY <1>2, <2>1 DEF Follows
  <2>6. Late' \subseteq Late /\ Pending' = Pending
    BY <1>2, <2>1, <2>5, LateStays
  <2> QED BY <1>7, <2>1, <2>4, <2>6
<1> QED BY <1>4, <1>5, <1>6, <1>8, <1>9

\* An invitation that is used, withdrawn or runs out keeps the bound: who follows it
\* had a place kept.
LEMMA InvitationCloses ==
    ASSUME MembersInv, MembersInv', SeatsWithin, ~Torn, NEW c, NEW p \in People,
           \A d \in Clerks \ {c} : clerk'[d] = clerk[d],
           \A m \in Nat : c \notin Bringing(m)', \A q \in People : ~Follows(c, q)',
           \A q \in People \ {p} : invites'[q] = invites[q],
           Joined' \subseteq Joined \cup {p}, p \notin Pending',
           p \in Pending \/ p \in Late \/ (Joined' \subseteq Joined /\ p \notin Late')
    PROVE  SeatsWithin'
<1>1. Pending' \subseteq Pending \ {p}
  BY DEF Pending
<1>2. ASSUME NEW q \in Late', q # p PROVE q \in Late
  <2>1. PICK d \in Clerks : Follows(d, q)'
    BY <1>2 DEF Late
  <2>2. clerk'[d] = clerk[d] /\ invites'[q] = invites[q] /\ q \in People
    BY <1>2, <2>1 DEF Late
  <2>3. q \notin Pending
    BY <1>2, <2>2 DEF Late, Pending
  <2>4. Follows(d, q)
    BY <2>1, <2>2 DEF Follows, StillInvited
  <2> QED BY <2>2, <2>3, <2>4 DEF Late
<1>3. Late' \subseteq Late \cup {p}
  BY <1>2
<1>4. \A m \in Nat : Bringing(m)' \subseteq Bringing(m)
  <2>1. \A m \in Nat : Bringing(m)' \subseteq Bringing(m) \cup {c}
    BY OthersBring
  <2> QED BY <2>1
<1>5. \A m \in 0..Cardinality(Joined') : Bringing(m)' \subseteq Bringing(m)
  BY <1>4
<1>6. SeatSettled(p, c)
  <2>1. CASE p \in Pending
    BY <1>1, <2>1 DEF SeatSettled
  <2>2. CASE p \in Late
    BY <1>1, <1>3, <2>2 DEF SeatSettled
  <2>3. CASE Joined' \subseteq Joined /\ p \notin Late'
    BY <1>1, <1>2, <2>3 DEF SeatSettled
  <2> QED BY <2>1, <2>2, <2>3
<1> QED BY <1>3, <1>5, <1>6, SeatsMove

\* Accepting and withdrawing keep the bound, unless they tear somebody's count.
LEMMA AcceptStepsFit ==
    ASSUME MembersInv, MembersInv', SeatsWithin, ~torn', NEW c \in Clerks,
           \/ \E p \in People : BeginAccept(c, p) \/ BeginRevoke(c, p)
           \/ LookForMember(c) \/ CloseInvite(c) \/ JoinByInvite(c)
           \/ RegisterByInvite(c) \/ Revoke(c)
    PROVE  SeatsWithin'
<1>0. /\ ClerksOK /\ MembersOK /\ InvitesOK /\ ids \in 1..MaxIds
      /\ clerk \in [Clerks -> ClerkRecords]
  BY MembersAssumption DEF MembersInv, RowsOK, ClerksOK
<1>1. ASSUME UNCHANGED <<members, invites>>, \A d \in Clerks \ {c} : clerk'[d] = clerk[d],
             clerk'[c].op \notin {"write", "invite", "add"},
             \A p \in People \ Pending : Follows(c, p)' => Follows(c, p)
      PROVE  SeatsWithin'
  <2>1. Joined' \subseteq Joined
    BY <1>1 DEF Joined
  <2>2. \A m \in 0..Cardinality(Joined) : c \notin Bringing(m)'
    BY <1>1, SeatAnswered
  <2> QED BY <1>1, <2>1, <2>2, QuietSeats
<1>2. ASSUME Answer(c)
      PROVE  /\ \A d \in Clerks \ {c} : clerk'[d] = clerk[d]
             /\ clerk'[c].op = "idle" /\ \A m \in Nat : c \notin Bringing(m)'
             /\ \A p \in People : ~Follows(c, p)'
  <2>1. /\ \A d \in Clerks \ {c} : clerk'[d] = clerk[d]
        /\ clerk'[c].op = "idle"
    BY <1>0, <1>2 DEF Answer, Idle
  <2> QED BY <2>1, SeatAnswered DEF Follows
<1>3. ASSUME Answer(c), UNCHANGED <<members, invites>> PROVE SeatsWithin'
  BY <1>1, <1>2, <1>3
<1>4. ASSUME clerk[c].op \in {"accept", "register"}, StillInvited(c), MarkAccepted(c), Answer(c),
             ~Torn, UNCHANGED members \/ (Enrol(clerk[c].who) /\ clerk[c].who \notin Joined)
      PROVE  SeatsWithin'
  <2>1. PICK p \in People : clerk[c].who = p
    BY <1>0, <1>4, ClerkKinds DEF Accepting
  <2>2. /\ \A q \in People \ {p} : invites'[q] = invites[q]
        /\ invites'[p].status = "accepted"
    BY <1>0, <1>4, <2>1 DEF MarkAccepted, InvitesOK
  <2>3. p \notin Pending'
    BY <2>2 DEF Pending
  <2>4. Joined' \subseteq Joined \cup {p}
    <3>1. CASE UNCHANGED members
      BY <3>1 DEF Joined
    <3>2. CASE Enrol(p)
      <4>1. \A m \in members' : m.user \notin Joined => m.user = p
        BY <1>0, <3>2, EnrolKeeps
      <4> QED BY <4>1 DEF Joined
    <3> QED BY <1>4, <2>1, <3>1, <3>2
  <2>5. p \in Pending \/ p \in Late
    BY <1>4, <2>1 DEF Late, Follows
  <2> QED BY <1>2, <1>4, <2>2, <2>3, <2>4, <2>5, InvitationCloses
<1>5. ASSUME NEW p \in People, BeginAccept(c, p) PROVE SeatsWithin'
  <2>1. /\ UNCHANGED <<members, invites>> /\ \A d \in Clerks \ {c} : clerk'[d] = clerk[d]
        /\ clerk'[c].op \in {"accept", "register"} /\ clerk'[c].who = p /\ p \in Pending
    BY <1>0, <1>5 DEF BeginAccept
  <2>2. \A q \in People \ Pending : ~Follows(c, q)'
    BY <2>1 DEF Follows
  <2> QED BY <1>1, <2>1, <2>2
<1>6. ASSUME NEW p \in People, BeginRevoke(c, p) PROVE SeatsWithin'
  <2>1. /\ UNCHANGED <<members, invites>> /\ \A d \in Clerks \ {c} : clerk'[d] = clerk[d]
        /\ clerk'[c].op = "revoke"
    BY <1>0, <1>6 DEF BeginRevoke
  <2>2. \A q \in People : ~Follows(c, q)'
    BY <2>1 DEF Follows
  <2> QED BY <1>1, <2>1, <2>2
<1>7. ASSUME LookForMember(c) PROVE SeatsWithin'
  <2>1. clerk[c] \in Accepting
    BY <1>0, <1>7, ClerkKinds DEF LookForMember
  <2>2. /\ UNCHANGED <<members, invites>> /\ \A d \in Clerks \ {c} : clerk'[d] = clerk[d]
        /\ clerk[c].op = "accept" /\ clerk'[c].op = "accept"
        /\ clerk'[c].who = clerk[c].who /\ clerk'[c].id = clerk[c].id
    BY <1>0, <1>7, <2>1 DEF LookForMember, Accepting
  <2>3. \A q \in People : Follows(c, q)' => Follows(c, q)
    BY <2>2 DEF Follows, StillInvited
  <2> QED BY <1>1, <2>2, <2>3
<1>8. ASSUME CloseInvite(c) PROVE SeatsWithin'
  <2>1. /\ clerk[c].op = "accept" /\ Answer(c) /\ UNCHANGED members /\ ~Torn
        /\ (StillInvited(c) /\ MarkAccepted(c)) \/ UNCHANGED invites
    BY <1>8 DEF CloseInvite
  <2> QED BY <1>3, <1>4, <2>1
<1>9. ASSUME JoinByInvite(c) \/ RegisterByInvite(c) PROVE SeatsWithin'
  <2>1. /\ clerk[c].op \in {"accept", "register"} /\ Answer(c)
        /\ \/ Commit(c) /\ MarkAccepted(c) /\ Enrol(clerk[c].who) /\ ~Torn
           \/ UNCHANGED <<invites, members>>
    BY <1>9 DEF JoinByInvite, RegisterByInvite
  <2> QED BY <1>3, <1>4, <2>1 DEF Commit
<1>10. ASSUME Revoke(c) PROVE SeatsWithin'
  <2>1. clerk[c].op = "revoke" /\ Answer(c) /\ UNCHANGED members /\ ~Torn
    BY <1>10 DEF Revoke
  <2>2. PICK p \in People : clerk[c].who = p
    BY <1>0, <2>1, ClerkKinds DEF Revoking
  <2>3. CASE StillInvited(c)
    <3>1. /\ \A q \in People \ {p} : invites'[q] = invites[q]
          /\ invites'[p] = NoInvite
      BY <1>0, <1>10, <2>2, <2>3 DEF Revoke, InvitesOK
    <3>2. p \notin Pending'
      BY <3>1 DEF Pending
    <3>3. p \notin Late'
      <4> SUFFICES ASSUME NEW d \in Clerks, Follows(d, p)' PROVE FALSE
        BY DEF Late
      <4>1. ClerksOK' /\ clerk'[d].op \in {"accept", "register"} /\ clerk'[d].id = 0
        BY <3>1 DEF MembersInv, Follows, StillInvited, NoInvite
      <4>2. clerk'[d] \in ClerkRecords
        BY <4>1 DEF ClerksOK
      <4>3. clerk'[d] \in Accepting
        BY <4>1, <4>2 DEF ClerkRecords, Idle, Counting, Writing, Accepting, Revoking, Changing
      <4> QED BY <4>1, <4>3, MembersAssumption DEF Accepting
    <3>4. Joined' \subseteq Joined
      BY <2>1 DEF Joined
    <3> QED BY <1>2, <2>1, <3>1, <3>2, <3>3, <3>4, InvitationCloses
  <2>4. CASE ~StillInvited(c)
    <3>1. UNCHANGED <<members, invites>>
      BY <1>10, <2>1, <2>4 DEF Revoke
    <3> QED BY <1>3, <2>1, <3>1
  <2> QED BY <2>3, <2>4
<1> QED BY <1>5, <1>6, <1>7, <1>8, <1>9, <1>10

\* Removing and changing a role keep the bound: nobody comes in.
LEMMA ChangeStepsFit ==
    ASSUME MembersInv, MembersInv', SeatsWithin, NEW c \in Clerks,
           \/ \E op \in {"remove", "retitle"}, m \in members, r \in Roles : BeginChange(c, op, m, r)
           \/ CountForRemoval(c) \/ Remove(c) \/ ChangeRole(c)
    PROVE  SeatsWithin'
<1>0. ClerksOK /\ MembersOK /\ clerk \in [Clerks -> ClerkRecords]
  BY DEF MembersInv, RowsOK, ClerksOK
<1>1. ASSUME UNCHANGED invites, Joined' \subseteq Joined,
             \A d \in Clerks : \/ clerk'[d] = clerk[d]
                               \/ clerk'[d].op \in {"idle", "remove", "retitle"}
      PROVE  SeatsWithin'
  <2>1. Pending' = Pending
    BY <1>1 DEF Pending
  <2>2. Late' \subseteq Late
    <3>1. \A d \in Clerks, p \in People : Follows(d, p)' => Follows(d, p)
      BY <1>1 DEF Follows, StillInvited
    <3> QED BY <2>1, <3>1 DEF Late
  <2>3. \A m \in 0..Cardinality(Joined') : Bringing(m)' \subseteq Bringing(m)
    BY <1>1, <2>1 DEF Bringing, Permitted, Hopeful, Taking
  <2>4. SeatSettled(Founder, c)
    BY <1>1, <2>1, <2>2 DEF SeatSettled
  <2> QED BY <1>1, <2>2, <2>3, <2>4, SeatsMove
<1>2. ASSUME Answer(c) PROVE \A d \in Clerks : clerk'[d] = clerk[d] \/ clerk'[d].op = "idle"
  BY <1>0, <1>2 DEF Answer, Idle
<1>3. ASSUME NEW op \in {"remove", "retitle"}, NEW m \in members, NEW r \in Roles,
             BeginChange(c, op, m, r)
      PROVE  SeatsWithin'
  <2>1. /\ UNCHANGED <<members, invites>>
        /\ \A d \in Clerks : clerk'[d] = clerk[d] \/ clerk'[d].op = op
    BY <1>0, <1>3 DEF BeginChange
  <2> QED BY <1>1, <2>1 DEF Joined
<1>4. ASSUME CountForRemoval(c) PROVE SeatsWithin'
  <2>1. UNCHANGED <<members, invites>> /\ clerk[c].op = "remove"
    BY <1>4 DEF CountForRemoval
  <2>2. CASE Answer(c)
    BY <1>1, <1>2, <2>1, <2>2 DEF Joined
  <2>3. CASE ~Answer(c)
    <3>1. \A d \in Clerks : \/ clerk'[d] = clerk[d]
                            \/ /\ clerk[d].op = "remove"
                               /\ \E w : clerk'[d] = [clerk[d] EXCEPT !.counted = w]
      BY <1>4, <2>1, <2>3 DEF CountForRemoval, Counted
    <3>2. \A d \in Clerks : clerk'[d] = clerk[d] \/ clerk'[d].op = "remove"
      <4> SUFFICES ASSUME NEW d \in Clerks, clerk'[d] # clerk[d] PROVE clerk'[d].op = "remove"
        OBVIOUS
      <4>1. clerk[d].op = "remove" /\ clerk[d] \in Changing
        BY <1>0, <3>1, ClerkKinds
      <4> QED BY <3>1, <4>1 DEF Changing
    <3> QED BY <1>1, <2>1, <3>2 DEF Joined
  <2> QED BY <2>2, <2>3
<1>5. ASSUME Remove(c) PROVE SeatsWithin'
  <2>1. Answer(c) /\ UNCHANGED invites /\ members' \subseteq members
    BY <1>5 DEF Remove
  <2> QED BY <1>1, <1>2, <2>1 DEF Joined
<1>6. ASSUME ChangeRole(c) PROVE SeatsWithin'
  <2>1. Answer(c) /\ UNCHANGED invites
    BY <1>6 DEF ChangeRole
  <2>2. Joined' \subseteq Joined
    <3> SUFFICES ASSUME NEW m \in members' PROVE m.user \in Joined
      BY DEF Joined
    <3>1. PICK n \in members :
            m = IF n.since = clerk[c].since THEN [n EXCEPT !.role = clerk[c].role] ELSE n
      BY <1>6 DEF ChangeRole
    <3>2. m.user = n.user
      BY <1>0, <3>1 DEF MembersOK
    <3> QED BY <3>2 DEF Joined
  <2> QED BY <1>1, <1>2, <2>1, <2>2
<1> QED BY <1>3, <1>4, <1>5, <1>6

\* Every step keeps the bound, or tears a count.
LEMMA NextSeatsInv == SeatsInv /\ [MembersNext]_membersVars => SeatsInv'
<1> SUFFICES ASSUME SeatsInv, [MembersNext]_membersVars PROVE SeatsInv'
  OBVIOUS
<1>1. MembersInv /\ MembersInv'
  BY NextMembersInv DEF SeatsInv
<1> SUFFICES ASSUME ~torn' PROVE SeatsWithin'
  BY <1>1 DEF SeatsInv
<1>2. ~torn
  <2>1. torn \in BOOLEAN
    BY <1>1 DEF MembersInv, RowsOK
  <2> QED BY <2>1 DEF MembersNext, membersVars, BeginSeat, CountHalf, FindPerson, WriteInvite,
        WriteMember, BeginAccept, BeginRevoke, LookForMember, CloseInvite, JoinByInvite,
        RegisterByInvite, Revoke, BeginChange, CountForRemoval, Remove, ChangeRole, Expire
<1>3. SeatsWithin
  BY <1>2 DEF SeatsInv
<1>4. ASSUME NEW p \in People, Expire(p) PROVE SeatsWithin'
  <2>1. /\ p \in Pending /\ UNCHANGED <<members, clerk>> /\ ~Torn
        /\ invites' = [invites EXCEPT ![p].status = "expired"]
    BY <1>4 DEF Expire
  <2>2. /\ \A q \in People \ {p} : invites'[q] = invites[q]
        /\ invites'[p].status = "expired"
    BY <1>1, <2>1 DEF MembersInv, RowsOK, InvitesOK
  <2>3. p \notin Pending' /\ Joined' = Joined
    BY <2>1, <2>2 DEF Pending, Joined
  <2>4. PICK c : c \notin Clerks
    <3>1. ~(\A c : c \in Clerks)
      BY NoSetContainsEverything
    <3> QED BY <3>1
  <2>5. /\ \A m \in Nat : Bringing(m)' \subseteq Bringing(m)
        /\ Pending' \subseteq Pending \ {p}
    <3>1. \A d : clerk'[d] = clerk[d]
      BY <2>1
    <3>2. \A m \in Nat : Bringing(m)' \subseteq Bringing(m) \cup {c}
      BY <1>1, <2>1, <3>1, OthersBring
    <3> QED BY <2>2, <2>3, <2>4, <3>2 DEF Bringing, Pending
  <2>6. Late' \subseteq Late \cup {p}
    BY <2>1, <2>2 DEF Late, Follows, StillInvited, Pending
  <2>7. SeatSettled(p, c)
    BY <2>1, <2>5 DEF SeatSettled
  <2>8. \A m \in 0..Cardinality(Joined') : Bringing(m)' \subseteq Bringing(m)
    BY <2>5
  <2> QED BY <1>1, <1>3, <2>3, <2>6, <2>7, <2>8, SeatsMove
<1>5. CASE UNCHANGED membersVars
  <2>1. SeatsWithin' = SeatsWithin
    BY <1>5 DEF membersVars, SeatsWithin, Joined, Pending, Late, Follows, StillInvited, Bringing,
       Permitted, Hopeful, Taking
  <2> QED BY <1>3, <2>1
<1>6. ASSUME NEW c \in Clerks, NEW m \in members, BeginChange(c, "remove", m, m.role)
      PROVE  SeatsWithin'
  <2>1. m.role \in Roles
    BY <1>1 DEF MembersInv, RowsOK, MembersOK
  <2> QED BY <1>1, <1>3, <1>6, <2>1, ChangeStepsFit
<1>7. ASSUME NEW c \in Clerks, NEW m \in members, NEW r \in Roles, BeginChange(c, "retitle", m, r)
      PROVE  SeatsWithin'
  BY <1>1, <1>3, <1>7, ChangeStepsFit
<1>8. ASSUME NEW c \in Clerks, CountForRemoval(c) \/ Remove(c) \/ ChangeRole(c) PROVE SeatsWithin'
  BY <1>1, <1>3, <1>8, ChangeStepsFit
<1> QED BY <1>1, <1>3, <1>4, <1>5, <1>6, <1>7, <1>8, SeatStepsFit, AcceptStepsFit DEF MembersNext

\* The seats a workspace holds and promises never exceed the plan by more than one
\* for each other request in flight, while nobody's count is torn in two (orgSeats.ts
\* counts, the handlers write afterwards).  The founder needs a seat too.
THEOREM SeatsStayBounded ==
    ASSUME SeatLimit + Cardinality(Clerks) > 1
    PROVE  MembersSpec => []SeatsOverrunBounded
<1>0. IsFiniteSet(Clerks) /\ SeatLimit \in Nat /\ Cardinality(Clerks) \in Nat
  BY MembersAssumption, FS_CardinalityType
<1>1. MembersInit => SeatsInv
  <2> SUFFICES ASSUME MembersInit PROVE SeatsWithin
    BY InitMembersInv DEF SeatsInv
  <2>1. Pending = {} /\ Joined = {Founder}
    BY DEF MembersInit, Pending, Joined
  <2>2. \A c \in Clerks : clerk[c].op = "idle"
    BY DEF MembersInit, Idle
  <2>3. Late = {} /\ \A m : Bringing(m) = {}
    BY <2>2 DEF Late, Follows, Bringing, Permitted, Hopeful, Taking
  <2>4. ASSUME NEW J \in SUBSET Joined
        PROVE  Cardinality(Pending) + Cardinality(J \cup Late) + Cardinality(Bringing(Cardinality(J)))
                 <= SeatLimit + Cardinality(Clerks) - 1
    <3>1. J \cup Late = {} \/ J \cup Late = {Founder}
      BY <2>1, <2>3
    <3>2. Cardinality(J \cup Late) \in {0, 1}
      BY <3>1, FS_EmptySet, FS_Singleton
    <3>3. Cardinality(Pending) = 0 /\ Cardinality(Bringing(Cardinality(J))) = 0
      BY <2>1, <2>3, FS_EmptySet
    <3> QED BY <1>0, <3>2, <3>3
  <2> QED BY <2>4 DEF SeatsWithin
<1>2. SeatsInv => SeatsOverrunBounded
  <2> SUFFICES ASSUME SeatsInv, ~torn
               PROVE  Cardinality(members) + Cardinality(Pending)
                        <= SeatLimit + Cardinality(Clerks) - 1
    BY DEF SeatsOverrunBounded
  <2> DEFINE B == Bringing(Cardinality(Joined))
  <2>1. SeatsWithin /\ SeatSetsOK
    BY SeatSets DEF SeatsInv
  <2>2. Cardinality(Pending) + Cardinality(Joined \cup Late) + Cardinality(B)
          <= SeatLimit + Cardinality(Clerks) - 1
    BY <2>1 DEF SeatsWithin
  <2>3. /\ IsFiniteSet(Joined) /\ IsFiniteSet(Late) /\ IsFiniteSet(Pending)
        /\ Cardinality(Joined) = Cardinality(members)
    BY <2>1 DEF SeatSetsOK
  <2>4. Cardinality(Joined) \in Nat /\ IsFiniteSet(Joined \cup Late)
    BY <2>3, FS_CardinalityType, FS_Union
  <2>5. IsFiniteSet(B)
    BY <2>1, <2>4 DEF SeatSetsOK
  <2> HIDE DEF B
  <2>6. /\ Cardinality(Joined \cup Late) \in Nat /\ Cardinality(Pending) \in Nat
        /\ Cardinality(B) \in Nat /\ Cardinality(Joined) <= Cardinality(Joined \cup Late)
    BY <2>3, <2>4, <2>5, FS_CardinalityType, FS_Subset
  <2> QED BY <1>0, <2>2, <2>3, <2>4, <2>6
<1> QED BY <1>1, <1>2, NextSeatsInv, PTL DEF MembersSpec
=============================================================================
