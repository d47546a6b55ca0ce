------------------------------ MODULE Members ------------------------------
(***************************************************************************)
(* Who belongs to a workspace: invitations, direct additions, removals,    *)
(* role changes and the seats a plan pays for.  Every handler is a chain   *)
(* of separate database calls, so the clerks (requests in flight) run side *)
(* by side between any two of them.                                        *)
(*                                                                         *)
(* A person stands for an e-mail address.  The secret in the link is not   *)
(* kept: a link that was replaced finds no row, so every acceptance starts *)
(* from the row as it is, and from then on names it by its id alone.       *)
(***************************************************************************)
EXTENDS Integers, FiniteSets

CONSTANTS
    People,      \* e-mail addresses
    Founder,     \* the address that registered the workspace
    Known,       \* the addresses that already have an account
    Clerks,      \* requests that can be in flight together
    SeatLimit,   \* how many members the plan in force allows
    OtherLimits, \* what the plans it may change to allow
    MaxIds       \* bound: how many rows may ever be created

\* A plan without a limit (-1) passes no gate: the limits here are counts.
ASSUME MembersAssumption ==
    /\ IsFiniteSet(People) /\ Founder \in People /\ Known \subseteq People
    /\ MaxIds \in Nat \ {0} /\ IsFiniteSet(Clerks)
    /\ OtherLimits \cup {SeatLimit} \subseteq Nat

VARIABLES
    users,       \* addresses that have an account
    members,     \* rows of OrganizationMember, `since` is createdAt and id
    invites,     \* at most one OrganizationInvite per address
    clerk,       \* what each request is doing
    ids,         \* the last id given out
    torn         \* history: a seat was taken up between the two halves of a count

membersVars == <<users, members, invites, clerk, ids, torn>>

NoInvite == [id |-> 0, status |-> "none"]
Idle == [op |-> "idle"]
\* Nobody is invited or added as an admin; the other roles share one place
\* among the seats, and one value here.
Roles == {"admin", "preparer"}

Joined == {m.user : m \in members}
Admins == {m \in members : m.role = "admin"}

Pending == {p \in People : invites[p] # NoInvite
                           /\ invites[p].status = "open"}

MembersInit ==
    /\ users = Known
    /\ members = {[user |-> Founder, role |-> "admin", since |-> 1]}
    /\ invites = [p \in People |-> NoInvite]
    /\ clerk = [c \in Clerks |-> Idle]
    /\ ids = 1
    /\ torn = FALSE

----------------------------------------------------------------------------
(* The seat gate of every request                                          *)

BeforeByAge(m, n) == m.since < n.since   \* mutant: admins are not preferred

\* m takes a seat before n: admins first, then the older row.
Before(m, n) ==
    \/ m.role = "admin" /\ n.role # "admin"
    \/ (m.role = "admin") = (n.role = "admin") /\ m.since < n.since

Seated(limit) ==
    {m \in members : Cardinality({n \in members : Before(n, m)}) < limit}

\* Who is served under a plan of `limit` seats: everyone while they fit.
Served(limit) == IF Cardinality(members) <= limit THEN members ELSE Seated(limit)

\* Somebody who may manage the workspace: an admin is let through to the
\* settings even without a seat.
CanManage == Admins # {}

----------------------------------------------------------------------------
(* Inviting and adding: count, look the person up, write                   *)

Taking(c) == clerk[c].op \in {"invite", "add"}
Answer(c) == clerk' = [clerk EXCEPT ![c] = Idle]

BeginSeat(c, op, p) ==
    /\ clerk[c] = Idle /\ CanManage
    /\ clerk' = [clerk EXCEPT ![c] =
          [op |-> op, who |-> p, seen |-> 0, left |-> {"members", "pending"}]]
    /\ UNCHANGED <<users, members, invites, ids, torn>>

FullLate(seats) == seats > SeatLimit     \* mutant: one seat too late

Full(seats) == seats >= SeatLimit

\* The two counts are separate queries, sent together and answered in either
\* order; one that fills the plan by itself settles the refusal.
CountHalf(c, half) ==
    LET seen == clerk[c].seen + Cardinality(IF half = "members" THEN members
                                                               ELSE Pending)
        left == clerk[c].left \ {half}
    IN  /\ Taking(c) /\ half \in clerk[c].left
        /\ IF Full(seen)
             THEN Answer(c)
             ELSE clerk' = [clerk EXCEPT ![c].left = left,
                                ![c].seen = IF left = {} THEN 0 ELSE seen]
        /\ UNCHANGED <<users, members, invites, ids, torn>>

\* Somebody who is a member already is refused, and only a person with an
\* account can be added without an invitation.
FindPerson(c) ==
    /\ Taking(c) /\ clerk[c].left = {}
    /\ IF /\ clerk[c].who \notin Joined
          /\ clerk[c].op = "add" => clerk[c].who \in users
         THEN clerk' = [clerk EXCEPT ![c] =
                               [op |-> "write", what |-> @.op, who |-> @.who]]
         ELSE Answer(c)
    /\ UNCHANGED <<users, members, invites, ids, torn>>

\* The upsert: a second invitation keeps the row and opens it again.
WriteInvite(c) ==
    LET p == clerk[c].who
        old == invites[p]
    IN  /\ clerk[c].op = "write" /\ clerk[c].what = "invite"
        /\ ids < MaxIds \/ old # NoInvite
        /\ ids' = IF old = NoInvite THEN ids + 1 ELSE ids
        /\ invites' = [invites EXCEPT ![p] =
              [id |-> IF old = NoInvite THEN ids + 1 ELSE old.id, status |-> "open"]]
        /\ Answer(c)
        /\ UNCHANGED <<users, members, torn>>

\* The row of one person is unique: a second insert fails.
Enrol(p) ==
    IF p \in Joined
      THEN UNCHANGED <<members, ids>>
      ELSE /\ ids < MaxIds
           /\ ids' = ids + 1
           /\ members' = members \cup {[user |-> p, role |-> "preparer", since |-> ids + 1]}

WriteMember(c) ==
    /\ clerk[c].op = "write" /\ clerk[c].what = "add"
    /\ Enrol(clerk[c].who)
    /\ Answer(c)
    /\ UNCHANGED <<users, invites, torn>>

\* An invitation leaves the pending ones after the members were counted.
Torn == \E c \in Clerks : Taking(c) /\ clerk[c].left = {"pending"}

----------------------------------------------------------------------------
(* Accepting: read the invitation, look for a membership, commit           *)

BeginAccept(c, p) ==
    /\ clerk[c] = Idle /\ p \in Pending
    /\ clerk' = [clerk EXCEPT ![c] =
          [op |-> IF p \in users THEN "accept" ELSE "register", who |-> p,
           id |-> invites[p].id, looked |-> "no"]]
    /\ UNCHANGED <<users, members, invites, ids, torn>>

LookForMember(c) ==
    /\ clerk[c].op = "accept" /\ clerk[c].looked = "no"
    /\ clerk' = [clerk EXCEPT ![c].looked =
                   IF clerk[c].who \in Joined THEN "member" ELSE "stranger"]
    /\ UNCHANGED <<users, members, invites, ids, torn>>

StillInvited(c) == invites[clerk[c].who].id = clerk[c].id
MarkAccepted(c) == invites' = [invites EXCEPT ![clerk[c].who].status = "accepted"]

\* A member who follows the link again only closes the invitation.
CloseInvite(c) ==
    /\ clerk[c].op = "accept" /\ clerk[c].looked = "member"
    /\ IF StillInvited(c) THEN MarkAccepted(c) ELSE UNCHANGED invites
    /\ Answer(c)
    /\ torn' = (torn \/ Torn)
    /\ UNCHANGED <<users, members, ids>>

\* mutant: the membership is written whatever became of the invitation
CommitAlone(c) == clerk[c].who \notin Joined

\* One transaction: the membership and the mark, or neither.
Commit(c) == StillInvited(c) /\ clerk[c].who \notin Joined

JoinByInvite(c) ==
    /\ clerk[c].op = "accept" /\ clerk[c].looked = "stranger"
    /\ IF Commit(c)
         THEN MarkAccepted(c) /\ Enrol(clerk[c].who)
         ELSE UNCHANGED <<invites, members, ids>>
    /\ torn' = (torn \/ (Commit(c) /\ Torn))
    /\ Answer(c)
    /\ UNCHANGED users

\* Registering with an invitation also creates the account.
RegisterByInvite(c) ==
    /\ clerk[c].op = "register"
    /\ IF Commit(c) /\ clerk[c].who \notin users
         THEN /\ MarkAccepted(c) /\ Enrol(clerk[c].who)
              /\ users' = users \cup {clerk[c].who}
         ELSE UNCHANGED <<invites, members, ids, users>>
    /\ torn' = (torn \/ (Commit(c) /\ Torn))
    /\ Answer(c)

----------------------------------------------------------------------------
(* Revoking, removing, changing a role                                     *)

BeginRevoke(c, p) ==
    /\ clerk[c] = Idle /\ CanManage
    /\ invites[p] # NoInvite /\ invites[p].status # "accepted"
    /\ clerk' = [clerk EXCEPT ![c] =
          [op |-> "revoke", who |-> p, id |-> invites[p].id]]
    /\ UNCHANGED <<users, members, invites, ids, torn>>

\* The delete names the id alone: what happened to the row since is not asked.
Revoke(c) ==
    /\ clerk[c].op = "revoke"
    /\ invites' = IF StillInvited(c)
                    THEN [invites EXCEPT ![clerk[c].who] = NoInvite] ELSE invites
    /\ Answer(c)
    /\ torn' = (torn \/ Torn)
    /\ UNCHANGED <<users, members, ids>>

BeginChange(c, op, m, r) ==
    /\ clerk[c] = Idle /\ CanManage
    /\ clerk' = [clerk EXCEPT ![c] =
          [op |-> op, since |-> m.since, role |-> r, counted |-> "no"]]
    /\ UNCHANGED <<users, members, invites, ids, torn>>

\* `counted` is "together" once two removals have passed their counts side by
\* side (history: the code keeps nothing of the kind).
Counted(c) == clerk[c].op = "remove" /\ clerk[c].counted # "no"

LastMayGo == members = {}                \* mutant: one removal too many

OnlyOneLeft == Cardinality(members) <= 1

CountForRemoval(c) ==
    LET others == {d \in Clerks \ {c} : Counted(d)}
    IN  /\ clerk[c].op = "remove" /\ clerk[c].counted = "no"
        /\ IF OnlyOneLeft
             THEN Answer(c)
             ELSE clerk' = [d \in Clerks |->
                    IF d = c \/ d \in others
                      THEN [clerk[d] EXCEPT !.counted =
                              IF others = {} THEN "alone" ELSE "together"]
                      ELSE clerk[d]]
        /\ UNCHANGED <<users, members, invites, ids, torn>>

Remove(c) ==
    /\ Counted(c)
    /\ members' = {m \in members : m.since # clerk[c].since}
    /\ Answer(c)
    /\ UNCHANGED <<users, invites, ids, torn>>

\* mutant: the new role gets a row of its own
ChangeRoleByInsert(c) ==
    /\ clerk[c].op = "retitle"
    /\ members' = members \cup {[m EXCEPT !.role = clerk[c].role] :
                                  m \in {m \in members : m.since = clerk[c].since}}
    /\ Answer(c)
    /\ UNCHANGED <<users, invites, ids, torn>>

ChangeRole(c) ==
    /\ clerk[c].op = "retitle"
    /\ members' = {IF m.since = clerk[c].since
                     THEN [m EXCEPT !.role = clerk[c].role] ELSE m : m \in members}
    /\ Answer(c)
    /\ UNCHANGED <<users, invites, ids, torn>>

----------------------------------------------------------------------------
(* What happens around the requests                                        *)

Expire(p) ==
    /\ p \in Pending
    /\ invites' = [invites EXCEPT ![p].status = "expired"]
    /\ torn' = (torn \/ Torn)
    /\ UNCHANGED <<users, members, clerk, ids>>

MembersNext ==
    \/ \E c \in Clerks :
         \/ \E op \in {"invite", "add"}, p \in People : BeginSeat(c, op, p)
         \/ \E half \in {"members", "pending"} : CountHalf(c, half)
         \/ FindPerson(c)
         \/ WriteInvite(c) \/ WriteMember(c)
         \/ \E p \in People : BeginAccept(c, p) \/ BeginRevoke(c, p)
         \/ LookForMember(c) \/ CloseInvite(c) \/ JoinByInvite(c)
         \/ RegisterByInvite(c) \/ Revoke(c)
         \/ \E m \in members : BeginChange(c, "remove", m, m.role)
         \/ \E m \in members, r \in Roles : BeginChange(c, "retitle", m, r)
         \/ CountForRemoval(c) \/ Remove(c) \/ ChangeRole(c)
    \/ \E p \in People : Expire(p)

MembersSpec == MembersInit /\ [][MembersNext]_membersVars

----------------------------------------------------------------------------
(* What must hold                                                          *)

\* The rows and the requests keep their shape: one membership per person, and
\* no two rows with one id.
MembersTypeOK ==
    /\ users \subseteq People
    /\ members \subseteq [user : People, role : Roles, since : 1..MaxIds]
    /\ \A m, n \in members : (m.user = n.user \/ m.since = n.since) => m = n
    /\ \A p \in People : invites[p] # NoInvite =>
         /\ invites[p].id \in 0..ids
         /\ invites[p].status \in {"none", "open", "accepted", "expired"}
    /\ ids \in 1..MaxIds
    /\ torn \in BOOLEAN

\* The quota is counted and then used without a lock: the workspace can promise
\* more seats than it pays for, but only one for each other request in
\* flight.  Its two halves are counted apart, and somebody who accepts between
\* them is in neither: only such a torn count goes further.
SeatsOverrunBounded ==
    ~torn => Cardinality(members) + Cardinality(Pending) <= SeatLimit + Cardinality(Clerks) - 1

\* "Cannot remove the last member.": a workspace that has members only ever
\* loses all of them to a removal that counted side by side with another one.
EmptyOnlySideBySide ==
    [][members # {} /\ members' = {} =>
          \E c \in Clerks : Counted(c) /\ clerk[c].counted = "together"]_membersVars

\* Whatever plan the workspace changes to, it never serves more people than that
\* plan pays for; while the plan pays for anybody and there is an admin, an
\* admin is served, and nobody of lower rank is served before one.
AdminsKeepTheirSeats ==
    \A limit \in OtherLimits \cup {SeatLimit} :
        LET served == Served(limit)
        IN  /\ Cardinality(served) <= limit
            /\ limit > 0 /\ Admins # {} => served \cap Admins # {}
            /\ Admins \subseteq served \/ served \subseteq Admins

\* Nobody enters by a withdrawn invitation, however late the withdrawal met the
\* acceptance: a person who becomes a member was either added by an admin or had
\* an invitation row at that moment, which the same step marks as used.
NobodyJoinsUninvited ==
    [][\A m \in members' : m.user \notin Joined =>
          \/ \E c \in Clerks : /\ clerk[c].op = "write" /\ clerk[c].what = "add"
                               /\ clerk[c].who = m.user
                               /\ clerk'[c] = Idle
          \/ invites[m.user] # NoInvite /\ invites'[m.user].status = "accepted"]_membersVars
=============================================================================
