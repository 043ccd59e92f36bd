--------------------------- MODULE EtcdAuthProofs ---------------------------
(***************************************************************************)
(* Proofs about EtcdAuth, for every number of administrators, roles,       *)
(* paths, calls and failures.                                              *)
(***************************************************************************)
EXTENDS EtcdAuth, SequenceTheorems, TLAPS

\* A call that is under way or has returned, but has not raised.
Running(a, what) == call[a] = what /\ outcome[a] \in {"none", "ok"}
Writing(a) == Running(a, "write")
Switching(a) == Running(a, "active")

Wanted(a) == want[a].object
SwitchKind(value) == IF value THEN "enable" ELSE "disable"

Pending(a) == Range(todo[a])
CreatePending(a) == \E r \in Pending(a) : r.kind = "create"
GrantPending(a, p) == \E r \in Pending(a) : r.kind = "grant" /\ p \in r.perms
RevokePending(a, p) == \E r \in Pending(a) : r.kind = "revoke" /\ p \in r.perms
PasswordPending(a) == \E r \in Pending(a) : r.kind = "password"
SwitchPending(a, value) == \E r \in Pending(a) : r.kind = SwitchKind(value)

\* What is still to be sent agrees with what the call is to bring about.
Serves(r, w) ==
    /\ r.kind \in {"create", "password", "grant", "revoke"}
    /\ r.kind = "create" => r.perms = w.perms /\ r.password = w.password
    /\ r.kind = "password" => r.password = w.password
    /\ r.kind = "grant" => r.perms \subseteq w.perms
    /\ r.kind = "revoke" => r.perms \cap w.perms = {}

ShapeInv(a) ==
    /\ call[a] \in {"none", "delete"} => todo[a] = <<>>
    /\ call[a] = "write" => \A r \in Pending(a) : Serves(r, Wanted(a))
    /\ call[a] = "active" => \A r \in Pending(a) : r.kind = SwitchKind(want[a].active)

\* User root has its role, whatever was asked for.
GivenInv == stored # Absent => given \subseteq stored.perms

TypeInv == TypeOK /\ GivenInv /\ \A a \in Admins : ShapeInv(a)

\* A write that nobody has come between: what is missing is still to be sent.
WriteInv(a) ==
    Writing(a) /\ alone[a] =>
        /\ stored = Absent => CreatePending(a)
        /\ stored # Absent =>
              /\ \A p \in Wanted(a).perms : p \in stored.perms \/ GrantPending(a, p)
              /\ \A p \in stored.perms :
                    p \in Wanted(a).perms \/ p \in given \/ RevokePending(a, p)
              /\ Wanted(a).password # NoPassword =>
                    stored.password = Wanted(a).password \/ PasswordPending(a)

\* Where all agree, what is missing is still to be sent by one of them.
ExistInv ==
    (\A a \in Admins : Writing(a)) /\ stored = Absent => \E a \in Admins : CreatePending(a)

OnInv(p) ==
    (\A a \in Admins : Writing(a) /\ p \in Wanted(a).perms) /\ stored # Absent =>
        p \in stored.perms \/ \E a \in Admins : GrantPending(a, p)

OffInv(p) ==
    (\A a \in Admins : Writing(a) /\ p \notin Wanted(a).perms) /\ stored # Absent =>
        p \notin stored.perms \/ p \in given \/ \E a \in Admins : RevokePending(a, p)

SwitchInv(value) ==
    (\A a \in Admins : Switching(a) /\ want[a].active = value) =>
        enabled = value \/ \E a \in Admins : SwitchPending(a, value)

AgreeInv ==
    /\ ExistInv
    /\ \A p \in Permissions : OnInv(p) /\ OffInv(p)
    /\ \A value \in BOOLEAN : SwitchInv(value)

AuthInv == TypeInv /\ AgreeInv /\ \A a \in Admins : WriteInv(a)

-----------------------------------------------------------------------------
(* The requests of a call. *)

Kinds == {"create", "password", "grant", "revoke", "enable", "disable"}

LEMMA RangeOfOne ==
    ASSUME NEW x
    PROVE  Range(<<x>>) = {x}
  BY DEF Range

LEMMA RangeOfNone == Range(<<>>) = {}
  BY DEF Range

LEMMA RangeOfHeadTail ==
    ASSUME NEW S, NEW s \in Seq(S), s # <<>>
    PROVE  /\ Head(s) \in S /\ Tail(s) \in Seq(S) /\ Len(Tail(s)) = Len(s) - 1
           /\ Range(s) = {Head(s)} \cup Range(Tail(s))
           /\ Len(s) = 1 => Tail(s) = <<>>
           /\ Len(s) # 1 => Tail(s) # <<>>
  <1>1. /\ Len(s) \in Nat \ {0} /\ DOMAIN s = 1..Len(s) /\ Head(s) = s[1]
        /\ s[1] \in S
    OBVIOUS
  <1>2. /\ Tail(s) \in Seq(S) /\ Len(Tail(s)) = Len(s) - 1
        /\ \A i \in 1..Len(Tail(s)) : Tail(s)[i] = s[i + 1]
        /\ DOMAIN Tail(s) = 1..Len(Tail(s))
    BY HeadTailProperties
  <1>3. Range(s) = {Head(s)} \cup Range(Tail(s))
    <2> DEFINE t == Tail(s)
    <2> HIDE DEF t
    <2>1. \A i \in DOMAIN s : i = 1 \/ (i - 1 \in DOMAIN t /\ s[i] = t[i - 1])
      BY <1>1, <1>2 DEF t
    <2>2. \A i \in DOMAIN t : i + 1 \in DOMAIN s /\ t[i] = s[i + 1]
      BY <1>1, <1>2 DEF t
    <2>3. Range(s) \subseteq {s[1]} \cup Range(t)
      BY <2>1 DEF Range
    <2>4. Range(t) \subseteq Range(s) /\ s[1] \in Range(s)
      BY <1>1, <2>2 DEF Range
    <2>. QED
      BY <1>1, <2>3, <2>4 DEF t
  <1>4. (Len(s) = 1 => Tail(s) = <<>>) /\ (Len(s) # 1 => Tail(s) # <<>>)
    BY <1>1, <1>2, EmptySeq
  <1>. QED
    BY <1>1, <1>2, <1>3, <1>4

LEMMA ChangeOK ==
    ASSUME NEW kind \in Kinds, NEW perms \in SUBSET Permissions
    PROVE  /\ Change(kind, perms) \in Seq(Request) /\ Len(Change(kind, perms)) <= 1
           /\ \A r \in Range(Change(kind, perms)) : r.kind = kind /\ r.perms = perms
           /\ perms # {} => \E r \in Range(Change(kind, perms)) : r.kind = kind /\ r.perms = perms
  <1>1. NewRequest(kind, perms, NoPassword) \in Request
    BY DEF NewRequest, Request, Kinds, Passwords
  <1>. QED
    BY <1>1, RangeOfOne, RangeOfNone DEF Change, NewRequest

LEMMA CreationOK ==
    ASSUME NEW x \in Entity
    PROVE  /\ Creation(x) \in Seq(Request) /\ Len(Creation(x)) = 1
           /\ \A r \in Range(Creation(x)) :
                 r.kind = "create" /\ r.perms = x.perms /\ r.password = x.password
           /\ \E r \in Range(Creation(x)) : r.kind = "create"
  <1>1. NewRequest("create", x.perms, x.password) \in Request
    BY DEF NewRequest, Request, Entity
  <1>. QED
    BY <1>1, RangeOfOne DEF Creation, NewRequest

\* The requests of a write, without their order, which the code does not
\* rely on.
LEMMA ChangesOK ==
    ASSUME NEW x \in Entity, NEW old \in Entity, old # Absent, entity \in {"user", "role"}
    PROVE  /\ ToNet(x, old) \in Seq(Request) /\ Len(ToNet(x, old)) <= 3
           /\ \A r \in Range(ToNet(x, old)) :
                 \/ r.kind = "password" /\ r.password = x.password
                 \/ r.kind = "grant" /\ r.perms = x.perms \ old.perms
                 \/ r.kind = "revoke" /\ r.perms = old.perms \ x.perms
           /\ \A p \in x.perms \ old.perms :
                 \E r \in Range(ToNet(x, old)) : r.kind = "grant" /\ p \in r.perms
           /\ \A p \in old.perms \ x.perms :
                 \E r \in Range(ToNet(x, old)) : r.kind = "revoke" /\ p \in r.perms
           /\ entity = "user" /\ x.password # NoPassword =>
                 \E r \in Range(ToNet(x, old)) : r.kind = "password"
  <1> DEFINE word == IF x.password = NoPassword THEN <<>>
                     ELSE <<NewRequest("password", {}, x.password)>>
             grant == Change("grant", x.perms \ old.perms)
             revoke == Change("revoke", old.perms \ x.perms)
  <1>1. /\ x.perms \ old.perms \in SUBSET Permissions
        /\ old.perms \ x.perms \in SUBSET Permissions
        /\ "grant" \in Kinds /\ "revoke" \in Kinds
    BY DEF Entity, Kinds
  <1>2. /\ grant \in Seq(Request) /\ Len(grant) <= 1
        /\ \A r \in Range(grant) : r.kind = "grant" /\ r.perms = x.perms \ old.perms
        /\ x.perms \ old.perms # {} =>
              \E r \in Range(grant) : r.kind = "grant" /\ r.perms = x.perms \ old.perms
    BY <1>1, ChangeOK
  <1>3. /\ revoke \in Seq(Request) /\ Len(revoke) <= 1
        /\ \A r \in Range(revoke) : r.kind = "revoke" /\ r.perms = old.perms \ x.perms
        /\ old.perms \ x.perms # {} =>
              \E r \in Range(revoke) : r.kind = "revoke" /\ r.perms = old.perms \ x.perms
    BY <1>1, ChangeOK
  <1>4. /\ word \in Seq(Request) /\ Len(word) <= 1
        /\ \A r \in Range(word) : r.kind = "password" /\ r.password = x.password
        /\ x.password # NoPassword => \E r \in Range(word) : r.kind = "password"
    <2>1. NewRequest("password", {}, x.password) \in Request
      BY DEF NewRequest, Request, Entity
    <2>. QED
      BY <2>1, RangeOfOne, RangeOfNone DEF NewRequest
  <1> HIDE DEF word, grant, revoke
  <1>5. CASE entity = "user"
    <2>1. ToNet(x, old) = word \o grant \o revoke
      BY <1>5 DEF ToNet, UserToNet, word, grant, revoke
    <2> DEFINE both == word \o grant
    <2>2. /\ both \in Seq(Request) /\ Len(both) <= 2
          /\ Range(both) = Range(word) \cup Range(grant)
      BY <1>2, <1>4, ConcatProperties, RangeConcatenation
    <2>3. ToNet(x, old) = both \o revoke
      BY <2>1
    <2> HIDE DEF both
    <2>4. /\ both \o revoke \in Seq(Request) /\ Len(both \o revoke) <= 3
          /\ Range(both \o revoke) = Range(word) \cup Range(grant) \cup Range(revoke)
      BY <1>3, <2>2, ConcatProperties, RangeConcatenation
    <2>. QED
      BY <1>2, <1>3, <1>4, <2>3, <2>4
  <1>6. CASE entity = "role"
    <2>1. ToNet(x, old) = revoke \o grant
      BY <1>6 DEF ToNet, RoleToNet, grant, revoke
    <2>2. /\ ToNet(x, old) \in Seq(Request) /\ Len(ToNet(x, old)) <= 3
          /\ Range(ToNet(x, old)) = Range(revoke) \cup Range(grant)
      BY <1>2, <1>3, <2>1, ConcatProperties, RangeConcatenation
    <2>. QED
      BY <1>2, <1>3, <1>6, <2>2
  <1>. QED
    BY <1>5, <1>6

-----------------------------------------------------------------------------
(* Exceptions. *)

LEMMA RaisesOK ==
    /\ \A s, c : Handle(s, c) \in Exceptions
    /\ \A e \in Exceptions :
          /\ ReadRaises(e) \in Exceptions /\ WriteRaises(e) \in Exceptions
          /\ DeleteRaises(e) \in Exceptions \cup {"AttributeError"}
    /\ "EtcdConnectionFailed" \in Exceptions
    /\ {"ok", "none"} \cap (Exceptions \cup {"AttributeError"}) = {}
  <1>1. Exceptions = {"EtcdException", "EtcdValueError", "EtcdCompareFailed",
            "EtcdDirNotEmpty", "EtcdClusterIdChanged", "EtcdKeyError",
            "EtcdKeyNotFound", "EtcdNotFile", "EtcdNotDir", "EtcdAlreadyExist",
            "EtcdRootReadOnly", "EtcdEventIndexCleared", "EtcdConnectionFailed",
            "EtcdWatchTimedOut", "EtcdInsufficientPermissions",
            "EtcdWatcherCleared", "EtcdLeaderElectionInProgress", "EtcdLockExpired"}
    BY DEF Exceptions, Base
  <1>2. \A c : ErrorExceptions(c) \in Exceptions
    BY <1>1 DEF ErrorExceptions
  <1>3. \A s, c : Handle(s, c) \in Exceptions
    BY <1>1, <1>2 DEF Handle
  <1>4. \A e \in Exceptions :
            /\ ReadRaises(e) \in Exceptions /\ WriteRaises(e) \in Exceptions
            /\ DeleteRaises(e) \in Exceptions \cup {"AttributeError"}
    BY <1>1 DEF ReadRaises, WriteRaises, DeleteRaises
  <1>5. /\ "EtcdConnectionFailed" \in Exceptions
        /\ {"ok", "none"} \cap (Exceptions \cup {"AttributeError"}) = {}
    BY <1>1
  <1>. QED
    BY <1>3, <1>4, <1>5

-----------------------------------------------------------------------------
(* Every step is a step of one administrator: the others' calls are as they *)
(* were, and so is all that is said of them.                               *)

Same(b) == /\ call'[b] = call[b] /\ todo'[b] = todo[b]
           /\ outcome'[b] = outcome[b] /\ want'[b] = want[b] /\ given' = given

LEMMA SameOK ==
    ASSUME NEW b, Same(b)
    PROVE  /\ ShapeInv(b)' <=> ShapeInv(b)
           /\ Writing(b)' <=> Writing(b)
           /\ Switching(b)' <=> Switching(b)
           /\ Wanted(b)' = Wanted(b) /\ want'[b].active = want[b].active
           /\ Pending(b)' = Pending(b)
           /\ CreatePending(b)' <=> CreatePending(b)
           /\ \A p : GrantPending(b, p)' <=> GrantPending(b, p)
           /\ \A p : RevokePending(b, p)' <=> RevokePending(b, p)
           /\ PasswordPending(b)' <=> PasswordPending(b)
           /\ \A v : SwitchPending(b, v)' <=> SwitchPending(b, v)
  <1>1. Pending(b)' = Pending(b)
    BY DEF Same, Pending
  <1>2. Wanted(b)' = Wanted(b)
    BY DEF Same, Wanted
  <1>3. ShapeInv(b)' <=> ShapeInv(b)
    BY <1>1, <1>2 DEF Same, ShapeInv
  <1>4. (Writing(b)' <=> Writing(b)) /\ (Switching(b)' <=> Switching(b))
    BY DEF Same, Writing, Switching, Running
  <1>5. /\ CreatePending(b)' <=> CreatePending(b)
        /\ \A p : GrantPending(b, p)' <=> GrantPending(b, p)
        /\ \A p : RevokePending(b, p)' <=> RevokePending(b, p)
        /\ PasswordPending(b)' <=> PasswordPending(b)
        /\ \A v : SwitchPending(b, v)' <=> SwitchPending(b, v)
    BY <1>1 DEF CreatePending, GrantPending, RevokePending, PasswordPending, SwitchPending
  <1>. QED
    BY <1>1, <1>2, <1>3, <1>4, <1>5 DEF Same

\* A step that changes the functions at a only.
At(a) ==
    /\ UNCHANGED setting
    /\ obj' = [obj EXCEPT ![a] = obj'[a]]
    /\ call' = [call EXCEPT ![a] = call'[a]]
    /\ todo' = [todo EXCEPT ![a] = todo'[a]]
    /\ outcome' = [outcome EXCEPT ![a] = outcome'[a]]
    /\ want' = [want EXCEPT ![a] = want'[a]]

\* What must then be shown of a and of the server.
TypedAt(a) ==
    /\ stored' = Absent \/ stored' \in Entity
    /\ GivenInv'
    /\ enabled' \in BOOLEAN
    /\ obj'[a] \in Entity
    /\ entity = "role" => obj'[a].password = NoPassword
    /\ call'[a] \in {"none", "write", "delete", "active"}
    /\ todo'[a] \in Seq(Request) /\ Len(todo'[a]) <= 3
    /\ todo'[a] # <<>> => outcome'[a] = "none"
    /\ outcome'[a] \in Exceptions \cup {"none", "ok", "AttributeError"}
    /\ calls' \in 0..MaxCalls /\ faults' \in 0..MaxFaults
    /\ want'[a] \in [object : Entity, active : BOOLEAN]
    /\ alone' \in [Admins -> BOOLEAN]

LEMMA ActorOK ==
    ASSUME TypeInv, NEW a \in Admins, At(a), TypedAt(a), ShapeInv(a)'
    PROVE  TypeInv' /\ \A b \in Admins : b # a => Same(b)
  <1> USE DEF TypeInv, TypeOK
  <1>1. ASSUME NEW b \in Admins, b # a PROVE Same(b) /\ obj'[b] = obj[b]
    BY <1>1 DEF At, Same, setting
  <1>2. \A b \in Admins : ShapeInv(b)'
    BY <1>1, SameOK
  <1>3. Entity' = Entity /\ Request' = Request /\ entity' = entity
    BY DEF At, setting, Entity, Request, Permissions
  <1>4. /\ obj' \in [Admins -> Entity]
        /\ call' \in [Admins -> {"none", "write", "delete", "active"}]
        /\ todo' \in [Admins -> Seq(Request)]
        /\ outcome' \in [Admins -> Exceptions \cup {"none", "ok", "AttributeError"}]
        /\ want' \in [Admins -> [object : Entity, active : BOOLEAN]]
    BY DEF At, TypedAt
  <1>5. \A b \in Admins : Len(todo'[b]) <= 3 /\ (todo'[b] # <<>> => outcome'[b] = "none")
    BY <1>1 DEF TypedAt, Same
  <1>6. entity = "role" => \A b \in Admins : obj'[b].password = NoPassword
    BY <1>1 DEF TypedAt
  <1>7. TypeOK' /\ GivenInv'
    BY <1>3, <1>4, <1>5, <1>6 DEF At, setting, TypedAt
  <1>. QED
    BY <1>1, <1>2, <1>7

\* Where a does not take part, there is nothing to agree on.
LEMMA NotWriting ==
    ASSUME NEW a \in Admins, ~Writing(a)'
    PROVE  ExistInv' /\ \A p : OnInv(p)' /\ OffInv(p)'
  BY DEF ExistInv, OnInv, OffInv

LEMMA NotSwitching ==
    ASSUME NEW a \in Admins, ~Switching(a)'
    PROVE  \A v : SwitchInv(v)'
  BY DEF SwitchInv

LEMMA OthersWriteOK ==
    ASSUME AuthInv, NEW b \in Admins, Same(b),
           alone'[b] => alone[b] /\ stored' = stored
    PROVE  WriteInv(b)'
  <1>1. WriteInv(b)
    BY DEF AuthInv
  <1>. QED
    BY <1>1, SameOK DEF WriteInv, Same

-----------------------------------------------------------------------------
(* The initial states, and the steps that send nothing.                    *)

LEMMA InitAuthInv == Init => AuthInv
  <1> SUFFICES ASSUME Init PROVE AuthInv
    OBVIOUS
  <1> USE AuthAssumption
  <1>1. New \in Entity /\ Nothing \in [object : Entity, active : BOOLEAN]
    BY DEF New, Nothing, Entity, Permissions, Passwords
  <1>2. (stored = Absent \/ stored \in Entity) /\ GivenInv
    BY DEF Init, Entity, Passwords, GivenInv
  <1>3. TypeOK
    <2>1. entity \in Entities /\ strict \in Strict /\ root \subseteq Admins /\ enabled \in BOOLEAN
          /\ given \in {{}, {RootRole}} /\ (entity = "role" => given = {})
      BY DEF Init
    <2>2. /\ obj \in [Admins -> Entity] /\ \A a \in Admins : obj[a].password = NoPassword
          /\ want \in [Admins -> [object : Entity, active : BOOLEAN]]
      BY <1>1 DEF Init, New
    <2>3. /\ todo \in [Admins -> Seq(Request)]
          /\ \A a \in Admins : Len(todo[a]) <= 3 /\ todo[a] = <<>>
      BY DEF Init
    <2>4. /\ call \in [Admins -> {"none", "write", "delete", "active"}]
          /\ outcome \in [Admins -> Exceptions \cup {"none", "ok", "AttributeError"}]
          /\ alone \in [Admins -> BOOLEAN] /\ calls \in 0..MaxCalls /\ faults \in 0..MaxFaults
      BY DEF Init
    <2>. QED
      BY <1>2, <2>1, <2>2, <2>3, <2>4 DEF TypeOK
  <1>4. \A a \in Admins : /\ todo[a] = <<>> /\ call[a] = "none"
                          /\ ~Writing(a) /\ ~Switching(a)
    BY DEF Init, Writing, Switching, Running
  <1>5. \A a \in Admins : ShapeInv(a) /\ WriteInv(a)
    BY <1>4, RangeOfNone DEF ShapeInv, WriteInv, Pending
  <1>6. AgreeInv
    BY <1>4 DEF AgreeInv, ExistInv, OnInv, OffInv, SwitchInv
  <1>. QED
    BY <1>2, <1>3, <1>5, <1>6 DEF AuthInv, TypeInv

LEMMA EntityOK ==
    ASSUME TypeInv
    PROVE  /\ Absent \notin Entity /\ entity \in {"user", "role"}
           /\ stored = Absent \/ stored \in Entity
           /\ \A a \in Admins : obj[a] \in Entity
           /\ New \in Entity /\ Nothing \in [object : Entity, active : BOOLEAN]
           /\ given \subseteq Permissions
  <1>1. Permissions \subseteq Roles \cup (Paths \X {"R", "W"})
    BY DEF Permissions
  <1>2. Absent \notin Entity
    BY <1>1, AuthAssumption DEF Entity, Passwords
  <1>3. New \in Entity /\ Nothing \in [object : Entity, active : BOOLEAN]
    BY DEF New, Nothing, Entity, Passwords
  <1>4. given \subseteq Permissions
    BY AuthAssumption DEF TypeInv, TypeOK, Permissions
  <1>. QED
    BY <1>2, <1>3, <1>4, AuthAssumption DEF TypeInv, TypeOK

\* A step that leaves the entity alone, or removes it, takes nothing from it.
LEMMA GivenOK ==
    ASSUME TypeInv, stored' \in {stored, Absent}, UNCHANGED setting
    PROVE  GivenInv'
  BY DEF TypeInv, GivenInv, setting

LEMMA EditOK ==
    ASSUME AuthInv, NEW a \in Admins, NEW x \in Entity, Edit(a, x),
           entity = "role" => x.password = NoPassword
    PROVE  AuthInv'
  <1> USE DEF TypeInv, TypeOK
  <1>1. TypeInv
    BY DEF AuthInv
  <1>2. At(a) /\ UNCHANGED <<stored, enabled, todo, calls, faults>> /\ call'[a] = "none"
        /\ todo'[a] = <<>>
    BY <1>1 DEF Edit, At, Idle, server, setting
  <1>3. TypedAt(a)
    <2>1. GivenInv'
      BY <1>1, <1>2, GivenOK DEF At
    <2>. QED
      BY <1>1, <1>2, <2>1, EntityOK DEF TypedAt, Edit
  <1>4. ShapeInv(a)' /\ ~Writing(a)' /\ ~Switching(a)'
    BY <1>2, RangeOfNone DEF ShapeInv, Writing, Switching, Running, Pending
  <1>5. TypeInv' /\ \A b \in Admins : b # a => Same(b)
    BY <1>1, <1>2, <1>3, <1>4, ActorOK
  <1>6. AgreeInv'
    BY <1>4, NotWriting, NotSwitching DEF AgreeInv
  <1>7. ASSUME NEW b \in Admins PROVE WriteInv(b)'
    <2>1. CASE b = a
      BY <1>4, <2>1 DEF WriteInv
    <2>2. CASE b # a
      <3>1. alone'[b] = alone[b] /\ stored' = stored
        BY <1>1, <1>2, <2>2 DEF Edit
      <3>. QED
        BY <1>5, <2>2, <3>1, OthersWriteOK
    <2>. QED
      BY <2>1, <2>2
  <1>. QED
    BY <1>5, <1>6, <1>7 DEF AuthInv

\* A call that ends before it has sent anything, with an exception or because
\* there is nothing to do, or that only sets out to flip the switch.
LEMMA EndsOK ==
    ASSUME AuthInv, NEW a \in Admins, At(a), TypedAt(a), ShapeInv(a)', ~Writing(a)',
           \A v \in BOOLEAN : SwitchInv(v)',
           \A b \in Admins : b # a /\ alone'[b] => alone[b] /\ stored' = stored
    PROVE  AuthInv'
  <1>1. TypeInv
    BY DEF AuthInv
  <1>2. TypeInv' /\ \A b \in Admins : b # a => Same(b)
    BY <1>1, ActorOK
  <1>3. AgreeInv'
    BY NotWriting DEF AgreeInv
  <1>4. ASSUME NEW b \in Admins PROVE WriteInv(b)'
    <2>1. CASE b = a
      BY <2>1 DEF WriteInv
    <2>2. CASE b # a
      BY <1>2, <2>2, OthersWriteOK
    <2>. QED
      BY <2>1, <2>2
  <1>. QED
    BY <1>2, <1>3, <1>4 DEF AuthInv

LEMMA CallsOK ==
    ASSUME TypeInv, NEW a \in Admins, NEW what, NEW requests, NEW how, NEW w,
           Calls(a, what, requests, how), want' = [want EXCEPT ![a] = w],
           obj' = obj \/ \E x : obj' = [obj EXCEPT ![a] = x]
    PROVE  /\ At(a) /\ UNCHANGED setting
           /\ call'[a] = what /\ todo'[a] = requests /\ want'[a] = w
           /\ outcome'[a] = (IF requests = <<>> THEN how ELSE "none")
           /\ calls' \in 0..MaxCalls /\ Idle(a)
  <1> USE DEF TypeInv, TypeOK
  <1>1. UNCHANGED setting /\ calls' \in 0..MaxCalls /\ Idle(a)
    BY AuthAssumption DEF Calls
  <1>2. call' = [call EXCEPT ![a] = call'[a]] /\ call'[a] = what
    BY DEF Calls
  <1>3. todo' = [todo EXCEPT ![a] = todo'[a]] /\ todo'[a] = requests
    BY DEF Calls
  <1>4. /\ outcome' = [outcome EXCEPT ![a] = outcome'[a]]
        /\ outcome'[a] = (IF requests = <<>> THEN how ELSE "none")
    BY DEF Calls
  <1>5. want' = [want EXCEPT ![a] = want'[a]] /\ want'[a] = w
    OBVIOUS
  <1>6. obj' = [obj EXCEPT ![a] = obj'[a]]
    OBVIOUS
  <1>. QED
    BY <1>1, <1>2, <1>3, <1>4, <1>5, <1>6 DEF At

LEMMA WriteCannotReadOK ==
    ASSUME AuthInv, NEW a \in Admins, WriteCannotRead(a)
    PROVE  AuthInv'
  <1> USE DEF TypeInv, TypeOK
  <1>1. TypeInv
    BY DEF AuthInv
  <1>2. PICK how \in Exceptions : Calls(a, "write", <<>>, how)
    BY RaisesOK DEF WriteCannotRead
  <1>3. /\ At(a) /\ UNCHANGED <<stored, enabled, obj>>
        /\ call'[a] = "write" /\ todo'[a] = <<>> /\ outcome'[a] = how
        /\ want'[a] = Nothing /\ calls' \in 0..MaxCalls /\ faults' \in 0..MaxFaults
        /\ alone' = [alone EXCEPT ![a] = FALSE]
    <2>1. faults' \in 0..MaxFaults
      BY <1>1, AuthAssumption DEF WriteCannotRead, Fault
    <2>2. /\ UNCHANGED <<stored, enabled, obj>> /\ want' = [want EXCEPT ![a] = Nothing]
          /\ alone' = [alone EXCEPT ![a] = FALSE]
      BY DEF WriteCannotRead, server
    <2>3. /\ At(a) /\ call'[a] = "write" /\ todo'[a] = <<>> /\ outcome'[a] = how
          /\ want'[a] = Nothing /\ calls' \in 0..MaxCalls
      BY <1>1, <1>2, <2>2, CallsOK
    <2>. QED
      BY <2>1, <2>2, <2>3
  <1>4. TypedAt(a)
    <2>1. GivenInv'
      BY <1>1, <1>3, GivenOK DEF At
    <2>. QED
      BY <1>1, <1>3, <2>1, EntityOK DEF TypedAt
  <1>5. how \notin {"ok", "none"}
    BY RaisesOK
  <1>6. ShapeInv(a)' /\ ~Writing(a)' /\ ~Switching(a)'
    BY <1>3, <1>5, RangeOfNone DEF ShapeInv, Writing, Switching, Running, Pending
  <1>7. \A b \in Admins : b # a /\ alone'[b] => alone[b] /\ stored' = stored
    BY <1>1, <1>3
  <1>. QED
    BY <1>3, <1>4, <1>6, <1>7, EndsOK, NotSwitching

LEMMA DeleteOK ==
    ASSUME AuthInv, NEW a \in Admins, Delete(a)
    PROVE  AuthInv'
  <1> USE DEF TypeInv, TypeOK
  <1>1. TypeInv
    BY DEF AuthInv
  <1>2. PICK how \in Exceptions \cup {"ok", "AttributeError"} : Calls(a, "delete", <<>>, how)
    BY RaisesOK DEF Delete
  <1>3. /\ At(a) /\ UNCHANGED <<enabled, obj>> /\ stored' \in {stored, Absent}
        /\ call'[a] = "delete" /\ todo'[a] = <<>> /\ outcome'[a] = how
        /\ want'[a] = Nothing /\ calls' \in 0..MaxCalls /\ faults' \in 0..MaxFaults
        /\ alone' = [b \in Admins |-> b # a /\ alone[b] /\ stored' = stored]
    <2>1. faults' \in 0..MaxFaults
      BY <1>1, AuthAssumption DEF Delete, Fault
    <2>2. /\ UNCHANGED <<enabled, obj>> /\ want' = [want EXCEPT ![a] = Nothing]
          /\ alone' = [b \in Admins |-> b # a /\ alone[b] /\ stored' = stored]
          /\ stored' \in {stored, Absent}
      BY DEF Delete
    <2>3. /\ At(a) /\ call'[a] = "delete" /\ todo'[a] = <<>> /\ outcome'[a] = how
          /\ want'[a] = Nothing /\ calls' \in 0..MaxCalls
      BY <1>1, <1>2, <2>2, CallsOK
    <2>. QED
      BY <2>1, <2>2, <2>3
  <1>4. TypedAt(a)
    <2>1. GivenInv'
      BY <1>1, <1>3, GivenOK DEF At
    <2>. QED
      BY <1>1, <1>3, <2>1, EntityOK DEF TypedAt
  <1>5. ShapeInv(a)' /\ ~Writing(a)' /\ ~Switching(a)'
    BY <1>3, RangeOfNone DEF ShapeInv, Writing, Switching, Running, Pending
  <1>6. \A b \in Admins : b # a /\ alone'[b] => alone[b] /\ stored' = stored
    BY <1>1, <1>3
  <1>. QED
    BY <1>3, <1>4, <1>5, <1>6, EndsOK, NotSwitching

LEMMA SetActiveOK ==
    ASSUME AuthInv, NEW a \in Admins, NEW value \in BOOLEAN, SetActive(a, value)
    PROVE  AuthInv'
  <1> USE DEF TypeInv, TypeOK
  <1> DEFINE r == NewRequest(SwitchKind(value), {}, NoPassword)
             new == IF value = enabled THEN <<>> ELSE <<r>>
  <1>1. TypeInv
    BY DEF AuthInv
  <1>2. Calls(a, "active", new, "ok")
    BY DEF SetActive, SwitchKind
  <1>3. r \in Request /\ r.kind = SwitchKind(value)
    BY DEF Request, NewRequest, SwitchKind, Passwords
  <1>4. /\ new \in Seq(Request) /\ Len(new) <= 3
        /\ \A q \in Range(new) : q.kind = SwitchKind(value)
        /\ value # enabled => r \in Range(new)
    BY <1>3, RangeOfOne, RangeOfNone
  <1> HIDE DEF r, new
  <1>5. /\ At(a) /\ UNCHANGED <<stored, enabled, obj, faults>>
        /\ call'[a] = "active" /\ todo'[a] = new
        /\ outcome'[a] = (IF new = <<>> THEN "ok" ELSE "none")
        /\ want'[a] = [Nothing EXCEPT !.active = value] /\ calls' \in 0..MaxCalls
        /\ alone' = [alone EXCEPT ![a] = FALSE]
    BY <1>1, <1>2, CallsOK DEF SetActive, server
  <1>6. want'[a] \in [object : Entity, active : BOOLEAN] /\ want'[a].active = value
    BY <1>1, <1>5, EntityOK DEF Nothing
  <1>7. TypedAt(a)
    <2>1. GivenInv'
      BY <1>1, <1>5, GivenOK DEF At
    <2>. QED
      BY <1>1, <1>4, <1>5, <1>6, <2>1 DEF TypedAt
  <1>8. Pending(a)' = Range(new)
    BY <1>5 DEF Pending
  <1>9. ShapeInv(a)' /\ ~Writing(a)'
    BY <1>4, <1>5, <1>6, <1>8 DEF ShapeInv, Writing, Running
  <1>10. ASSUME NEW v \in BOOLEAN PROVE SwitchInv(v)'
    <2>1. CASE v = value
      BY <1>3, <1>4, <1>5, <1>8, <2>1 DEF SwitchInv, SwitchPending
    <2>2. CASE v # value
      BY <1>6, <2>2 DEF SwitchInv
    <2>. QED
      BY <2>1, <2>2
  <1>11. \A b \in Admins : b # a /\ alone'[b] => alone[b] /\ stored' = stored
    BY <1>1, <1>5
  <1>. QED
    BY <1>5, <1>7, <1>9, <1>10, <1>11, EndsOK

LEMMA SetActiveCannotReadOK ==
    ASSUME AuthInv, NEW a \in Admins, SetActiveCannotRead(a)
    PROVE  AuthInv'
  <1> USE DEF TypeInv, TypeOK
  <1> DEFINE how == "EtcdConnectionFailed"
  <1>1. TypeInv
    BY DEF AuthInv
  <1>2. how \in Exceptions /\ how \notin {"ok", "none"}
    BY RaisesOK
  <1>3. /\ Calls(a, "active", <<>>, how) /\ UNCHANGED <<stored, enabled, obj>>
        /\ want' = [want EXCEPT ![a] = Nothing] /\ alone' = [alone EXCEPT ![a] = FALSE]
        /\ faults' \in 0..MaxFaults
    BY <1>1, AuthAssumption DEF SetActiveCannotRead, server, Fault
  <1> HIDE DEF how
  <1>4. /\ At(a) /\ call'[a] = "active" /\ todo'[a] = <<>> /\ outcome'[a] = how
        /\ want'[a] = Nothing /\ calls' \in 0..MaxCalls
    BY <1>1, <1>3, CallsOK
  <1>5. TypedAt(a)
    <2>1. GivenInv'
      BY <1>1, <1>3, <1>4, GivenOK DEF At
    <2>. QED
      BY <1>1, <1>2, <1>3, <1>4, <2>1, EntityOK DEF TypedAt
  <1>6. ShapeInv(a)' /\ ~Writing(a)' /\ ~Switching(a)'
    BY <1>2, <1>4, RangeOfNone DEF ShapeInv, Writing, Switching, Running, Pending
  <1>7. \A b \in Admins : b # a /\ alone'[b] => alone[b] /\ stored' = stored
    BY <1>1, <1>3
  <1>. QED
    BY <1>4, <1>5, <1>6, <1>7, EndsOK, NotSwitching

-----------------------------------------------------------------------------
(* write *)

LEMMA WriteOK ==
    ASSUME AuthInv, NEW a \in Admins, Write(a)
    PROVE  AuthInv'
  <1> USE DEF TypeInv, TypeOK
  <1> DEFINE x == obj[a]
             new == ToNet(x, stored)
             w == [Nothing EXCEPT !.object = x]
  <1>1. TypeInv /\ x \in Entity
    BY EntityOK DEF AuthInv
  <1>2. w \in [object : Entity, active : BOOLEAN] /\ w.object = x
    BY <1>1, EntityOK DEF Nothing
  <1>3. stored = Absent =>
            /\ new \in Seq(Request) /\ Len(new) <= 3
            /\ \A r \in Range(new) :
                  r.kind = "create" /\ r.perms = x.perms /\ r.password = x.password
            /\ \E r \in Range(new) : r.kind = "create"
    <2> SUFFICES ASSUME stored = Absent
                 PROVE  /\ new \in Seq(Request) /\ Len(new) <= 3
                        /\ \A r \in Range(new) :
                              r.kind = "create" /\ r.perms = x.perms /\ r.password = x.password
                        /\ \E r \in Range(new) : r.kind = "create"
      OBVIOUS
    <2>1. new = Creation(x)
      BY DEF ToNet
    <2> HIDE DEF new
    <2>2. /\ Creation(x) \in Seq(Request) /\ Len(Creation(x)) = 1
          /\ \A r \in Range(Creation(x)) :
                r.kind = "create" /\ r.perms = x.perms /\ r.password = x.password
          /\ \E r \in Range(Creation(x)) : r.kind = "create"
      BY <1>1, CreationOK
    <2>. QED
      BY <2>1, <2>2
  <1>4. stored # Absent =>
            /\ new \in Seq(Request) /\ Len(new) <= 3
            /\ \A r \in Range(new) :
                 \/ r.kind = "password" /\ r.password = x.password
                 \/ r.kind = "grant" /\ r.perms = x.perms \ stored.perms
                 \/ r.kind = "revoke" /\ r.perms = stored.perms \ x.perms
            /\ \A p \in x.perms \ stored.perms :
                 \E r \in Range(new) : r.kind = "grant" /\ p \in r.perms
            /\ \A p \in stored.perms \ x.perms :
                 \E r \in Range(new) : r.kind = "revoke" /\ p \in r.perms
            /\ x.password # NoPassword =>
                 \E r \in Range(new) : r.kind = "password"
    <2> SUFFICES ASSUME stored # Absent
                 PROVE  /\ new \in Seq(Request) /\ Len(new) <= 3
                        /\ \A r \in Range(new) :
                             \/ r.kind = "password" /\ r.password = x.password
                             \/ r.kind = "grant" /\ r.perms = x.perms \ stored.perms
                             \/ r.kind = "revoke" /\ r.perms = stored.perms \ x.perms
                        /\ \A p \in x.perms \ stored.perms :
                             \E r \in Range(new) : r.kind = "grant" /\ p \in r.perms
                        /\ \A p \in stored.perms \ x.perms :
                             \E r \in Range(new) : r.kind = "revoke" /\ p \in r.perms
                        /\ x.password # NoPassword =>
                             \E r \in Range(new) : r.kind = "password"
      OBVIOUS
    <2>1. stored \in Entity /\ entity \in {"user", "role"}
          /\ (entity = "role" => x.password = NoPassword)
      BY <1>1, EntityOK
    <2>. QED
      BY <1>1, <2>1, ChangesOK
  <1> HIDE DEF new
  <1>5. Calls(a, "write", new, "ok") /\ want' = [want EXCEPT ![a] = w]
        /\ UNCHANGED <<stored, enabled, faults>> /\ alone' = [alone EXCEPT ![a] = TRUE]
        /\ obj' = [obj EXCEPT ![a] = [x EXCEPT !.password = NoPassword]]
    BY DEF Write, server, new
  <1> HIDE DEF w
  <1>6. /\ At(a) /\ call'[a] = "write" /\ todo'[a] = new /\ want'[a] = w
        /\ outcome'[a] = (IF new = <<>> THEN "ok" ELSE "none")
        /\ calls' \in 0..MaxCalls
    BY <1>1, <1>5, CallsOK
  <1>7. obj'[a] \in Entity /\ obj'[a].password = NoPassword
    BY <1>1, <1>5 DEF Entity, Passwords
  <1>8. TypedAt(a)
    <2>1. GivenInv'
      BY <1>1, <1>5, <1>6, GivenOK DEF At
    <2>. QED
      BY <1>1, <1>2, <1>3, <1>4, <1>5, <1>6, <1>7, <2>1 DEF TypedAt
  <1>9. Pending(a)' = Range(new) /\ Wanted(a)' = x
    BY <1>2, <1>6 DEF Pending, Wanted
  <1>10. \A r \in Range(new) : Serves(r, x)
    BY <1>3, <1>4 DEF Serves
  <1>11. ShapeInv(a)' /\ ~Switching(a)'
    BY <1>6, <1>9, <1>10 DEF ShapeInv, Switching, Running
  <1>12. TypeInv' /\ \A b \in Admins : b # a => Same(b)
    BY <1>1, <1>6, <1>8, <1>11, ActorOK
  <1>13. /\ stored' = Absent => CreatePending(a)'
         /\ stored' # Absent =>
               /\ \A p \in x.perms : p \in stored'.perms \/ GrantPending(a, p)'
               /\ \A p \in stored'.perms : p \in x.perms \/ RevokePending(a, p)'
               /\ x.password # NoPassword => PasswordPending(a)'
    BY <1>3, <1>4, <1>5, <1>9 DEF CreatePending, GrantPending, RevokePending, PasswordPending
  <1>14. AgreeInv'
    <2>1. ExistInv' /\ \A p : OnInv(p)' /\ OffInv(p)'
      BY <1>9, <1>13 DEF ExistInv, OnInv, OffInv
    <2>. QED
      BY <2>1, <1>11, NotSwitching DEF AgreeInv
  <1>15. ASSUME NEW b \in Admins PROVE WriteInv(b)'
    <2>1. CASE b = a
      BY <1>9, <1>13, <2>1 DEF WriteInv
    <2>2. CASE b # a
      <3>1. alone'[b] = alone[b] /\ stored' = stored
        BY <1>1, <1>5, <2>2
      <3>. QED
        BY <1>12, <2>2, <3>1, OthersWriteOK
    <2>. QED
      BY <2>1, <2>2
  <1>. QED
    BY <1>12, <1>14, <1>15 DEF AuthInv

-----------------------------------------------------------------------------
(* The requests are sent. *)

LEMMA ExecuteOK ==
    ASSUME TypeInv, NEW a \in Admins, NEW r \in Request, Execute(a, r)
    PROVE  /\ stored' = Absent \/ stored' \in Entity
           /\ UNCHANGED setting => GivenInv'
           /\ enabled' \in BOOLEAN /\ alone' \in [Admins -> BOOLEAN]
           /\ alone'[a] = alone[a]
           /\ \A b \in Admins : b # a /\ alone'[b] => alone[b] /\ stored' = stored
           /\ stored' = stored \/ (Accepted(a, r) /\ stored' = Stored(r) /\ stored' \in Entity)
           /\ r.kind \in {"enable", "disable"} => stored' = stored
           /\ Accepted(a, r) /\ r.kind \notin {"enable", "disable"} =>
                 stored' = Stored(r) /\ (r.kind = "create" \/ stored # Absent)
           /\ enabled' = enabled \/ enabled' = (r.kind = "enable")
           /\ Accepted(a, r) /\ r.kind \in {"enable", "disable"} =>
                 enabled' = (r.kind = "enable")
  <1> USE DEF TypeInv, TypeOK
  <1>1. Accepted(a, r) /\ r.kind \notin {"enable", "disable", "create"} => stored # Absent
    <2> SUFFICES ASSUME r.kind \notin {"enable", "disable", "create"}, stored = Absent
                 PROVE  ~Accepted(a, r)
      OBVIOUS
    <2>1. PutStatus(a, r) = IF Denied(a) THEN 401 ELSE 404
      BY DEF PutStatus
    <2>. QED
      BY <2>1 DEF Accepted
  <1>2. ASSUME r.kind \in {"enable", "disable"} PROVE Stored(r) = stored
    BY <1>2 DEF Stored
  <1>3. ASSUME stored # Absent \/ r.kind = "create" PROVE Stored(r) \in Entity \/ Stored(r) = stored
    <2>1. r.perms \in SUBSET Permissions /\ r.password \in Passwords
      BY DEF Request
    <2>2. CASE r.kind = "create" /\ stored = Absent
      <3>1. Stored(r) = [perms |-> r.perms \cup given, password |-> r.password]
        BY <2>2 DEF Stored
      <3>2. r.perms \cup given \in SUBSET Permissions
        BY <2>1, EntityOK
      <3>. QED
        BY <2>1, <3>1, <3>2 DEF Entity
    <2>3. CASE stored # Absent
      <3>1. stored \in Entity
        BY <2>3
      <3>2. /\ [stored EXCEPT !.password = r.password] \in Entity
            /\ [stored EXCEPT !.perms = @ \cup r.perms] \in Entity
            /\ [stored EXCEPT !.perms = @ \ (r.perms \ given)] \in Entity
        BY <2>1, <3>1 DEF Entity
      <3>3. Stored(r) \in {[stored EXCEPT !.password = r.password], stored,
                           [stored EXCEPT !.perms = @ \cup r.perms],
                           [stored EXCEPT !.perms = @ \ (r.perms \ given)]}
        BY <2>3 DEF Stored
      <3>. QED
        BY <3>2, <3>3
    <2>. QED
      BY <1>3, <2>2, <2>3
  <1>4. /\ stored' = IF Accepted(a, r) THEN Stored(r) ELSE stored
        /\ enabled' = IF Accepted(a, r) /\ r.kind \in {"enable", "disable"}
                      THEN r.kind = "enable" ELSE enabled
        /\ alone' = [b \in Admins |-> alone[b] /\ (b = a \/ stored' = stored)]
    BY DEF Execute
  <1>5. /\ enabled' \in BOOLEAN /\ alone' \in [Admins -> BOOLEAN]
        /\ alone'[a] = alone[a]
        /\ \A b \in Admins : b # a /\ alone'[b] => alone[b] /\ stored' = stored
    BY <1>4
  <1>6. stored' = stored \/ (Accepted(a, r) /\ stored' = Stored(r) /\ stored' \in Entity)
    BY <1>1, <1>2, <1>3, <1>4
  <1>7. ASSUME UNCHANGED setting PROVE GivenInv'
    <2>1. CASE stored' = stored
      BY <1>7, <2>1, GivenOK
    <2>2. CASE Accepted(a, r) /\ stored' = Stored(r) /\ stored' # stored
      <3>1. r.kind = "create" \/ stored # Absent
        BY <1>1, <1>2, <2>2
      <3>2. CASE stored = Absent
        <4>1. stored' = [perms |-> r.perms \cup given, password |-> r.password]
          BY <2>2, <3>1, <3>2 DEF Stored
        <4>. QED
          BY <1>7, <4>1 DEF GivenInv, setting
      <3>3. CASE stored # Absent
        <4>1. stored \in Entity /\ given \subseteq stored.perms
          BY <3>3 DEF GivenInv
        <4>2. stored' \in {[stored EXCEPT !.password = r.password],
                          [stored EXCEPT !.perms = @ \cup r.perms],
                          [stored EXCEPT !.perms = @ \ (r.perms \ given)]}
          BY <2>2, <3>3 DEF Stored
        <4>3. stored'.perms \in {stored.perms, stored.perms \cup r.perms,
                                stored.perms \ (r.perms \ given)}
          BY <4>1, <4>2 DEF Entity
        <4>. QED
          BY <1>7, <4>1, <4>3 DEF GivenInv, setting
      <3>. QED
        BY <3>2, <3>3
    <2>. QED
      BY <1>6, <2>1, <2>2
  <1>. QED
    BY <1>1, <1>2, <1>4, <1>5, <1>6, <1>7

\* What a request of a write does to the entity, seen from what is wanted.
LEMMA ServedOK ==
    ASSUME TypeInv, NEW a \in Admins, NEW r \in Request, Execute(a, r),
           NEW w, Serves(r, w)
    PROVE  /\ Accepted(a, r) => stored' # Absent
           /\ stored # Absent => stored' # Absent
           /\ stored # Absent =>
                 /\ \A p \in stored'.perms : p \in stored.perms \/ p \in w.perms
                 /\ \A p \in stored.perms : p \in w.perms => p \in stored'.perms
                 /\ stored'.password \in {stored.password, w.password}
           /\ stored = Absent /\ stored' # Absent =>
                 stored'.perms = w.perms \cup given /\ stored'.password = w.password
           /\ Accepted(a, r) =>
                 /\ r.kind = "grant" => \A p \in r.perms : p \in stored'.perms
                 /\ r.kind = "revoke" =>
                       \A p \in r.perms : p \notin stored'.perms \/ p \in given
                 /\ r.kind = "password" => stored'.password = w.password
  <1>1. Absent \notin Entity /\ (stored = Absent \/ stored \in Entity)
    BY EntityOK
  <1>2. r.kind \in {"create", "password", "grant", "revoke"}
    BY DEF Serves
  <1>3. CASE stored' = stored /\ ~Accepted(a, r)
    BY <1>3
  <1>4. CASE Accepted(a, r)
    <2>1. stored' = Stored(r) /\ (r.kind = "create" \/ stored # Absent)
      BY <1>2, <1>4, ExecuteOK
    <2>2. CASE stored = Absent
      <3>1. /\ stored' = [perms |-> r.perms \cup given, password |-> r.password]
            /\ r.kind = "create"
        <4>1. r.kind = "create"
          BY <2>1, <2>2
        <4>2. Stored(r) = [perms |-> r.perms \cup given, password |-> r.password]
          BY <2>2, <4>1 DEF Stored
        <4>. QED
          BY <2>1, <4>1, <4>2
      <3>2. r.perms \in SUBSET Permissions /\ r.password \in Passwords
        BY DEF Request
      <3>3. stored' \in Entity
        BY <3>1, <3>2, EntityOK DEF Entity
      <3>4. r.perms = w.perms /\ r.password = w.password
        BY <3>1 DEF Serves
      <3>. QED
        BY <1>1, <2>2, <3>1, <3>3, <3>4
    <2>3. CASE stored # Absent
      <3>1. stored \in Entity
        BY <1>1, <2>3
      <3>2. stored' \in Entity
        BY <3>1, ExecuteOK
      <3>3. CASE r.kind \in {"create", "password"}
        <4>1. stored' = [stored EXCEPT !.password = r.password] /\ r.password = w.password
          BY <2>1, <2>3, <3>3 DEF Stored, Serves
        <4>2. stored'.perms = stored.perms /\ stored'.password = w.password
          BY <3>1, <4>1 DEF Entity
        <4>. QED
          BY <1>1, <2>3, <3>2, <3>3, <4>2
      <3>4. CASE r.kind = "grant"
        <4>1. stored' = [stored EXCEPT !.perms = @ \cup r.perms] /\ r.perms \subseteq w.perms
          BY <2>1, <2>3, <3>4 DEF Stored, Serves
        <4>2. stored'.perms = stored.perms \cup r.perms /\ stored'.password = stored.password
          BY <3>1, <4>1 DEF Entity
        <4>. QED
          BY <1>1, <2>3, <3>2, <3>4, <4>1, <4>2
      <3>5. CASE r.kind = "revoke"
        <4>1. /\ stored' = [stored EXCEPT !.perms = @ \ (r.perms \ given)]
              /\ r.perms \cap w.perms = {}
          BY <2>1, <2>3, <3>5 DEF Stored, Serves
        <4>2. /\ stored'.perms = stored.perms \ (r.perms \ given)
              /\ stored'.password = stored.password
          BY <3>1, <4>1 DEF Entity
        <4>. QED
          BY <1>1, <2>3, <3>2, <3>5, <4>1, <4>2
      <3>. QED
        BY <1>2, <3>3, <3>4, <3>5
    <2>. QED
      BY <2>2, <2>3
  <1>. QED
    BY <1>3, <1>4, ExecuteOK

\* A request that has been executed leaves less to do, and what it leaves is
\* in the entity; one whose answer was lost stays to be sent again.
LEMMA ProgressOK ==
    ASSUME AuthInv, NEW a \in Admins, NEW r \in Request, Execute(a, r),
           At(a), TypedAt(a), call'[a] = call[a], want'[a] = want[a],
           outcome[a] = "none", call[a] \in {"write", "active"},
           r \in Pending(a), Pending(a) \subseteq Pending(a)' \cup {r},
           Pending(a)' \subseteq Pending(a), r \in Pending(a)' \/ Accepted(a, r)
    PROVE  AuthInv'
  <1>1. TypeInv /\ ShapeInv(a) /\ AgreeInv /\ \A b \in Admins : WriteInv(b)
    BY DEF AuthInv, TypeInv
  <1>2. ShapeInv(a)'
    BY <1>1 DEF ShapeInv, Wanted
  <1>3. TypeInv' /\ \A b \in Admins : b # a => Same(b)
    BY <1>1, <1>2, ActorOK
  <1>4. Wanted(a)' = Wanted(a)
    BY DEF Wanted
  <1>5. ASSUME NEW b \in Admins, b # a PROVE WriteInv(b)'
    <2>1. alone'[b] => alone[b] /\ stored' = stored
      BY <1>1, <1>5, ExecuteOK
    <2>. QED
      BY <1>3, <1>5, <2>1, OthersWriteOK
  <1>6. CASE call[a] = "write"
    <2>1. Writing(a) /\ ~Switching(a)' /\ Serves(r, Wanted(a))
      BY <1>1, <1>6 DEF Writing, Switching, Running, ShapeInv
    <2> DEFINE w == Wanted(a)
    <2>2. /\ Accepted(a, r) => stored' # Absent
          /\ stored # Absent => stored' # Absent
          /\ stored # Absent =>
                /\ \A p \in stored'.perms : p \in stored.perms \/ p \in w.perms
                /\ \A p \in stored.perms : p \in w.perms => p \in stored'.perms
                /\ stored'.password \in {stored.password, w.password}
          /\ stored = Absent /\ stored' # Absent =>
                stored'.perms = w.perms \cup given /\ stored'.password = w.password
          /\ Accepted(a, r) =>
                /\ r.kind = "grant" => \A p \in r.perms : p \in stored'.perms
                /\ r.kind = "revoke" =>
                      \A p \in r.perms : p \notin stored'.perms \/ p \in given
                /\ r.kind = "password" => stored'.password = w.password
      BY <1>1, <2>1, ServedOK
    <2> HIDE DEF w
    <2>3. /\ CreatePending(a) => CreatePending(a)' \/ stored' # Absent
          /\ stored' # Absent =>
                /\ \A p : GrantPending(a, p) => GrantPending(a, p)' \/ p \in stored'.perms
                /\ \A p : RevokePending(a, p) =>
                       RevokePending(a, p)' \/ p \notin stored'.perms \/ p \in given
                /\ PasswordPending(a) => PasswordPending(a)' \/ stored'.password = w.password
      BY <2>2 DEF CreatePending, GrantPending, RevokePending, PasswordPending
    <2>4. WriteInv(a)'
      <3>1. SUFFICES ASSUME alone'[a]
                     PROVE  /\ stored' = Absent => CreatePending(a)'
                            /\ stored' # Absent =>
                                  /\ \A p \in w.perms : p \in stored'.perms \/ GrantPending(a, p)'
                                  /\ \A p \in stored'.perms :
                                        p \in w.perms \/ p \in given \/ RevokePending(a, p)'
                                  /\ w.password # NoPassword =>
                                        stored'.password = w.password \/ PasswordPending(a)'
        BY <1>4 DEF WriteInv, w, At, setting
      <3>2. alone[a]
        BY <1>1, <3>1, ExecuteOK
      <3>3. /\ stored = Absent => CreatePending(a)
            /\ stored # Absent =>
                  /\ \A p \in w.perms : p \in stored.perms \/ GrantPending(a, p)
                  /\ \A p \in stored.perms :
                        p \in w.perms \/ p \in given \/ RevokePending(a, p)
                  /\ w.password # NoPassword =>
                        stored.password = w.password \/ PasswordPending(a)
        BY <1>1, <2>1, <3>2 DEF WriteInv, w
      <3>4. CASE stored = Absent
        BY <2>2, <2>3, <3>3, <3>4
      <3>5. CASE stored # Absent
        BY <2>2, <2>3, <3>3, <3>5
      <3>. QED
        BY <3>4, <3>5
    <2>5. \A b \in Admins : Writing(b)' => Writing(b)
      BY <1>3, <2>1, SameOK
    <2>6. \A b \in Admins : Wanted(b)' = Wanted(b)
      BY <1>3, <1>4, SameOK
    <2>7. ExistInv'
      <3>1. SUFFICES ASSUME \A b \in Admins : Writing(b)', stored' = Absent
                     PROVE  \E b \in Admins : CreatePending(b)'
        BY DEF ExistInv
      <3>2. PICK b \in Admins : CreatePending(b)
        BY <1>1, <2>2, <2>5, <3>1 DEF AgreeInv, ExistInv
      <3>3. CASE b = a
        BY <2>3, <3>1, <3>2, <3>3
      <3>4. CASE b # a
        BY <1>3, <3>2, <3>4, SameOK
      <3>. QED
        BY <3>3, <3>4
    <2>8. ASSUME NEW p \in Permissions PROVE OnInv(p)'
      <3>1. SUFFICES ASSUME \A b \in Admins : Writing(b)' /\ p \in Wanted(b)'.perms, stored' # Absent,
                            p \notin stored'.perms
                     PROVE  \E b \in Admins : GrantPending(b, p)'
        BY DEF OnInv
      <3>2. \A b \in Admins : Writing(b) /\ p \in Wanted(b).perms
        BY <2>5, <2>6, <3>1
      <3>3. stored # Absent /\ p \notin stored.perms
        BY <2>2, <3>1, <3>2 DEF w
      <3>4. PICK b \in Admins : GrantPending(b, p)
        BY <1>1, <3>2, <3>3 DEF AgreeInv, OnInv
      <3>5. CASE b = a
        BY <2>3, <3>1, <3>4, <3>5
      <3>6. CASE b # a
        BY <1>3, <3>4, <3>6, SameOK
      <3>. QED
        BY <3>5, <3>6
    <2>9. ASSUME NEW p \in Permissions PROVE OffInv(p)'
      <3>. given' = given
        BY DEF At, setting
      <3>1. SUFFICES ASSUME \A b \in Admins : Writing(b)' /\ p \notin Wanted(b)'.perms, stored' # Absent,
                            p \in stored'.perms, p \notin given
                     PROVE  \E b \in Admins : RevokePending(b, p)'
        BY DEF OffInv
      <3>2. \A b \in Admins : Writing(b) /\ p \notin Wanted(b).perms
        BY <2>5, <2>6, <3>1
      <3>3. stored # Absent /\ p \in stored.perms
        BY <2>2, <3>1, <3>2 DEF w
      <3>4. PICK b \in Admins : RevokePending(b, p)
        <4>1. OffInv(p)
          BY <1>1 DEF AgreeInv
        <4>2. p \notin given
          BY <3>1
        <4>. QED
          BY <3>2, <3>3, <4>1, <4>2 DEF OffInv
      <3>5. CASE b = a
        <4>1. RevokePending(a, p)
          BY <3>4, <3>5
        <4>. QED
          BY <2>3, <3>1, <3>5, <4>1
      <3>6. CASE b # a
        BY <1>3, <3>4, <3>6, SameOK
      <3>. QED
        BY <3>5, <3>6
    <2>10. Permissions' = Permissions
      BY DEF At, setting, Permissions
    <2>11. AgreeInv'
      BY <2>1, <2>7, <2>8, <2>9, <2>10, NotSwitching DEF AgreeInv
    <2>. QED
      BY <1>3, <1>5, <2>4, <2>11 DEF AuthInv
  <1>7. CASE call[a] = "active"
    <2>1. ~Writing(a)' /\ Switching(a) /\ r.kind = SwitchKind(want[a].active)
      BY <1>1, <1>7 DEF Writing, Switching, Running, ShapeInv
    <2>2. WriteInv(a)' /\ ExistInv' /\ \A p : OnInv(p)' /\ OffInv(p)'
      BY <2>1, NotWriting DEF WriteInv
    <2>3. ASSUME NEW v \in BOOLEAN PROVE SwitchInv(v)'
      <3>1. SUFFICES ASSUME \A b \in Admins : Switching(b)' /\ want'[b].active = v,
                            enabled' # v
                     PROVE  \E b \in Admins : SwitchPending(b, v)'
        BY DEF SwitchInv
      <3>2. \A b \in Admins : Switching(b) /\ want[b].active = v
        BY <1>3, <2>1, <3>1, SameOK
      <3>3. r.kind = SwitchKind(v) /\ r.kind \in {"enable", "disable"}
            /\ ((r.kind = "enable") = v)
        BY <2>1, <3>2 DEF SwitchKind
      <3>4. enabled # v /\ ~Accepted(a, r)
        BY <1>1, <3>1, <3>3, ExecuteOK
      <3>5. PICK b \in Admins : SwitchPending(b, v)
        BY <1>1, <3>2, <3>4 DEF AgreeInv, SwitchInv
      <3>6. CASE b = a
        BY <3>4, <3>5, <3>6 DEF SwitchPending
      <3>7. CASE b # a
        BY <1>3, <3>5, <3>7, SameOK
      <3>. QED
        BY <3>6, <3>7
    <2>. QED
      BY <1>3, <1>5, <2>2, <2>3 DEF AuthInv, AgreeInv
  <1>. QED
    BY <1>6, <1>7

LEMMA HeadOK ==
    ASSUME TypeInv, NEW a \in Admins, todo[a] # <<>>
    PROVE  /\ Head(todo[a]) \in Request /\ Head(todo[a]) \in Pending(a)
           /\ Pending(a) = {Head(todo[a])} \cup Range(Tail(todo[a]))
           /\ todo[a] \in Seq(Request) /\ Tail(todo[a]) \in Seq(Request)
           /\ Len(Tail(todo[a])) <= 3 /\ (Tail(todo[a]) = <<>> <=> Len(todo[a]) = 1)
           /\ outcome[a] = "none" /\ call[a] \in {"write", "active"}
  <1>1. /\ todo[a] \in Seq(Request) /\ Len(todo[a]) <= 3 /\ outcome[a] = "none"
        /\ call[a] \in {"none", "write", "delete", "active"}
    BY DEF TypeInv, TypeOK
  <1>2. call[a] \in {"write", "active"}
    BY <1>1 DEF TypeInv, ShapeInv
  <1>3. /\ Head(todo[a]) \in Request /\ Tail(todo[a]) \in Seq(Request)
        /\ Len(Tail(todo[a])) = Len(todo[a]) - 1
        /\ Range(todo[a]) = {Head(todo[a])} \cup Range(Tail(todo[a]))
        /\ Tail(todo[a]) = <<>> <=> Len(todo[a]) = 1
    BY <1>1, RangeOfHeadTail
  <1>4. Len(Tail(todo[a])) <= 3
    BY <1>1, <1>3
  <1>. QED
    BY <1>1, <1>2, <1>3, <1>4 DEF Pending

LEMMA FailsOK ==
    ASSUME AuthInv, NEW a \in Admins, todo[a] # <<>>,
           Execute(a, Head(todo[a])) \/ UNCHANGED <<server, alone>>,
           todo' = [todo EXCEPT ![a] = <<>>], NEW how \in Exceptions,
           outcome' = [outcome EXCEPT ![a] = how], faults' \in 0..MaxFaults,
           UNCHANGED <<setting, obj, call, calls, want>>
    PROVE  AuthInv'
  <1> USE DEF TypeInv, TypeOK
  <1>1. TypeInv
    BY DEF AuthInv
  <1>2. /\ Head(todo[a]) \in Request /\ call[a] \in {"write", "active"}
    BY <1>1, HeadOK
  <1>3. /\ stored' = Absent \/ stored' \in Entity
        /\ enabled' \in BOOLEAN /\ alone' \in [Admins -> BOOLEAN]
        /\ \A b \in Admins : b # a /\ alone'[b] => alone[b] /\ stored' = stored
    <2>1. CASE Execute(a, Head(todo[a]))
      BY <1>1, <1>2, <2>1, ExecuteOK
    <2>2. CASE UNCHANGED <<server, alone>>
      BY <1>1, <2>2, EntityOK DEF server
    <2>. QED
      BY <2>1, <2>2
  <1>4. At(a) /\ todo'[a] = <<>> /\ outcome'[a] = how
    BY <1>1 DEF At
  <1>5. TypedAt(a)
    <2>1. GivenInv'
      BY <1>1, <1>2, ExecuteOK, GivenOK DEF server
    <2>. QED
      BY <1>1, <1>3, <1>4, <2>1 DEF TypedAt
  <1>6. ShapeInv(a)' /\ ~Writing(a)' /\ ~Switching(a)'
    <2>1. how \notin {"none", "ok"}
      BY RaisesOK
    <2>. QED
      BY <1>2, <1>4, <2>1, RangeOfNone DEF ShapeInv, Pending, Writing, Switching, Running
  <1>. QED
    BY <1>3, <1>4, <1>5, <1>6, EndsOK, NotSwitching

LEMMA RaisesAtOK ==
    ASSUME TypeInv, NEW a \in Admins, todo[a] # <<>>, NEW e \in Exceptions
    PROVE  Raises(a, e) \in Exceptions
  <1>1. call[a] \in {"write", "active"}
    BY HeadOK
  <1>. QED
    BY <1>1, RaisesOK DEF Raises

LEMMA SendOK ==
    ASSUME AuthInv, NEW a \in Admins, Send(a)
    PROVE  AuthInv'
  <1> USE DEF TypeInv, TypeOK
  <1> DEFINE r == Head(todo[a])
             rest == Tail(todo[a])
  <1>1. TypeInv /\ todo[a] # <<>> /\ Execute(a, r)
    BY DEF AuthInv, Send
  <1>2. /\ r \in Request /\ r \in Pending(a) /\ Pending(a) = {r} \cup Range(rest)
        /\ rest \in Seq(Request) /\ Len(rest) <= 3 /\ (rest = <<>> <=> Len(todo[a]) = 1)
        /\ outcome[a] = "none" /\ call[a] \in {"write", "active"}
    BY <1>1, HeadOK
  <1>3. CASE ~Accepted(a, r)
    <2> DEFINE how == Raises(a, Handle(PutStatus(a, r), NoCode))
    <2>1. how \in Exceptions
      BY <1>1, RaisesAtOK, RaisesOK
    <2>2. /\ todo' = [todo EXCEPT ![a] = <<>>] /\ outcome' = [outcome EXCEPT ![a] = how]
          /\ UNCHANGED <<setting, obj, call, calls, faults, want>>
      BY <1>3 DEF Send
    <2> HIDE DEF how
    <2>. QED
      BY <1>1, <2>1, <2>2, FailsOK
  <1>4. CASE Accepted(a, r)
    <2>1. /\ todo' = [todo EXCEPT ![a] = Tail(@)]
          /\ outcome' = [outcome EXCEPT ![a] = IF Len(todo[a]) = 1 THEN "ok" ELSE @]
          /\ obj' = IF call[a] = "write" THEN [obj EXCEPT ![a] = FromNet(@, stored')] ELSE obj
          /\ UNCHANGED <<setting, call, calls, faults, want>>
      BY <1>4 DEF Send
    <2>2. /\ todo'[a] = rest /\ todo' = [todo EXCEPT ![a] = rest]
          /\ outcome'[a] = (IF rest = <<>> THEN "ok" ELSE "none")
          /\ outcome' = [outcome EXCEPT ![a] = outcome'[a]]
      BY <1>1, <1>2, <2>1
    <2> HIDE DEF r, rest
    <2>3. /\ stored' = Absent \/ stored' \in Entity
          /\ enabled' \in BOOLEAN /\ alone' \in [Admins -> BOOLEAN]
      BY <1>1, <1>2, ExecuteOK
    <2>4. /\ obj'[a] \in Entity /\ (entity = "role" => obj'[a].password = NoPassword)
          /\ obj' = [obj EXCEPT ![a] = obj'[a]]
      <3>1. CASE call[a] = "write"
        <4>1. Serves(r, Wanted(a))
          BY <1>1, <1>2, <3>1 DEF ShapeInv
        <4>2. stored' \in Entity
          BY <1>1, <1>2, <1>4, <2>3, <4>1, ServedOK
        <4>3. obj' = [obj EXCEPT ![a] = [obj[a] EXCEPT !.perms = stored'.perms]]
          BY <2>1, <3>1 DEF FromNet
        <4>4. obj[a] \in Entity /\ (entity = "role" => obj[a].password = NoPassword)
          BY <1>1
        <4>5. [obj[a] EXCEPT !.perms = stored'.perms] \in Entity
          BY <4>2, <4>4 DEF Entity
        <4>. QED
          BY <1>1, <4>3, <4>4, <4>5 DEF Entity
      <3>2. CASE call[a] # "write"
        BY <1>1, <2>1, <3>2
      <3>. QED
        BY <3>1, <3>2
    <2>5. At(a) /\ call'[a] = call[a] /\ want'[a] = want[a]
      BY <1>1, <2>1, <2>2, <2>4 DEF At
    <2>6. TypedAt(a)
      <3>1. GivenInv'
        BY <1>1, <1>2, <2>1, ExecuteOK
      <3>. QED
        BY <1>1, <1>2, <2>1, <2>2, <2>3, <2>4, <3>1 DEF TypedAt
    <2>7. Pending(a)' = Range(rest)
      BY <2>2 DEF Pending
    <2>. QED
      BY <1>1, <1>2, <1>4, <2>5, <2>6, <2>7, ProgressOK
  <1>. QED
    BY <1>3, <1>4

LEMMA RequestFailsOK ==
    ASSUME AuthInv, NEW a \in Admins, RequestFails(a)
    PROVE  AuthInv'
  <1>1. TypeInv /\ todo[a] # <<>>
    BY DEF AuthInv, RequestFails
  <1>2. Raises(a, "EtcdConnectionFailed") \in Exceptions
    BY <1>1, RaisesAtOK, RaisesOK
  <1>3. faults' \in 0..MaxFaults
    BY <1>1, AuthAssumption DEF RequestFails, Fault, TypeInv, TypeOK
  <1>. QED
    BY <1>1, <1>2, <1>3, FailsOK DEF RequestFails

LEMMA AnswerLostOK ==
    ASSUME AuthInv, NEW a \in Admins, AnswerLost(a)
    PROVE  AuthInv'
  <1> USE DEF TypeInv, TypeOK
  <1> DEFINE r == Head(todo[a])
  <1>1. TypeInv /\ todo[a] # <<>> /\ Execute(a, r)
    BY DEF AuthInv, AnswerLost
  <1>2. /\ r \in Request /\ r \in Pending(a)
        /\ outcome[a] = "none" /\ call[a] \in {"write", "active"}
    BY <1>1, HeadOK
  <1> HIDE DEF r
  <1>3. UNCHANGED <<setting, obj, call, todo, outcome, calls, want>>
    BY DEF AnswerLost
  <1>4. faults' \in 0..MaxFaults
    BY <1>1, AuthAssumption DEF AnswerLost, Fault
  <1>5. At(a) /\ call'[a] = call[a] /\ want'[a] = want[a] /\ Pending(a)' = Pending(a)
    BY <1>1, <1>3 DEF At, Pending
  <1>6. /\ stored' = Absent \/ stored' \in Entity
        /\ enabled' \in BOOLEAN /\ alone' \in [Admins -> BOOLEAN]
    BY <1>1, <1>2, ExecuteOK
  <1>7. TypedAt(a)
    <2>1. GivenInv'
      BY <1>1, <1>2, <1>3, ExecuteOK
    <2>. QED
      BY <1>1, <1>3, <1>4, <1>6, <2>1 DEF TypedAt
  <1>. QED
    BY <1>1, <1>2, <1>5, <1>7, ProgressOK

-----------------------------------------------------------------------------
LEMMA StepAuthInv == AuthInv /\ [Next]_vars => AuthInv'
  <1> SUFFICES ASSUME AuthInv, [Next]_vars PROVE AuthInv'
    OBVIOUS
  <1>1. TypeInv
    BY DEF AuthInv
  <1>2. \A a \in Admins : obj[a] \in Entity /\ (entity = "role" => obj[a].password = NoPassword)
    BY <1>1 DEF TypeInv, TypeOK
  <1>3. ASSUME NEW a \in Admins, NEW roles \in SUBSET Roles, SetRoles(a, roles) PROVE AuthInv'
    <2>1. [obj[a] EXCEPT !.perms = roles] \in Entity /\ entity = "user"
      BY <1>2, <1>3 DEF SetRoles, Entity, Permissions
    <2>. QED
      BY <1>3, <2>1, EditOK DEF SetRoles
  <1>4. ASSUME NEW a \in Admins, SetPassword(a) \/ Str(a) PROVE AuthInv'
    <2>1. /\ [obj[a] EXCEPT !.password = a] \in Entity /\ entity = "user"
          /\ [obj[a] EXCEPT !.password = NoPassword] \in Entity
      BY <1>2, <1>4 DEF SetPassword, Str, Entity, Passwords
    <2>. QED
      BY <1>4, <2>1, EditOK DEF SetPassword, Str
  <1>5. ASSUME NEW a \in Admins, NEW path \in Paths, NEW letters \in SUBSET {"R", "W"},
               Grant(a, path, letters) \/ Revoke(a, path, letters)
        PROVE  AuthInv'
    <2>1. entity = "role" /\ {path} \X letters \subseteq Permissions
      BY <1>5 DEF Grant, Revoke, Permissions
    <2> DEFINE x == [obj[a] EXCEPT !.perms = @ \cup ({path} \X letters)]
               y == [obj[a] EXCEPT !.perms = @ \ ({path} \X letters)]
    <2>2. x \in Entity /\ y \in Entity /\ x.password = NoPassword /\ y.password = NoPassword
      BY <1>2, <2>1 DEF Entity
    <2>3. Edit(a, x) \/ Edit(a, y)
      BY <1>5 DEF Grant, Revoke
    <2> HIDE DEF x, y
    <2>. QED
      BY <2>2, <2>3, EditOK
  <1>6. ASSUME NEW a \in Admins, NEW acls \in [Paths -> SUBSET {"R", "W"}], SetAcls(a, acls)
        PROVE  AuthInv'
    <2> DEFINE perms == UNION {{path} \X acls[path] : path \in DOMAIN acls}
               x == [obj[a] EXCEPT !.perms = perms]
    <2>1. entity = "role" /\ Edit(a, x)
      BY <1>6 DEF SetAcls
    <2>2. perms \subseteq Permissions
      BY <2>1 DEF Permissions
    <2>3. x \in Entity /\ x.password = NoPassword
      BY <1>2, <2>1, <2>2 DEF Entity
    <2> HIDE DEF x
    <2>. QED
      BY <2>1, <2>3, EditOK
  <1>7. ASSUME NEW a \in Admins, Read(a) PROVE AuthInv'
    <2> DEFINE x == FromNet(obj[a], stored)
    <2>1. Edit(a, x) /\ stored # Absent
      BY <1>7 DEF Read, GetStatus
    <2>2. stored \in Entity
      BY <1>1, <2>1, EntityOK
    <2>3. x \in Entity /\ (entity = "role" => x.password = NoPassword)
      BY <1>2, <2>2 DEF FromNet, Entity
    <2> HIDE DEF x
    <2>. QED
      BY <2>1, <2>3, EditOK
  <1>8. CASE UNCHANGED vars
    <2>1. UNCHANGED <<entity, strict, root, given, stored, enabled, obj, call, todo,
                      outcome, calls, faults, want, alone>>
      BY <1>8 DEF vars, setting, server
    <2>2. Permissions' = Permissions /\ Entity' = Entity /\ Request' = Request
      BY <2>1 DEF Permissions, Entity, Request
    <2>3. TypeOK' /\ GivenInv'
      BY <1>1, <2>1, <2>2 DEF TypeInv, TypeOK, GivenInv
    <2>4. \A a \in Admins :
             /\ Pending(a)' = Pending(a) /\ Wanted(a)' = Wanted(a)
             /\ Writing(a)' = Writing(a) /\ Switching(a)' = Switching(a)
      BY <2>1 DEF Pending, Wanted, Writing, Switching, Running
    <2>5. ASSUME NEW a \in Admins PROVE ShapeInv(a)' /\ WriteInv(a)'
      <3>1. ShapeInv(a) /\ WriteInv(a)
        BY DEF AuthInv, TypeInv
      <3>2. ShapeInv(a)'
        BY <2>1, <2>4, <3>1 DEF ShapeInv
      <3>3. WriteInv(a)'
        BY <2>1, <2>4, <3>1 DEF WriteInv, CreatePending, GrantPending, RevokePending,
                                PasswordPending
      <3>. QED
        BY <3>2, <3>3
    <2>6. ExistInv'
      BY <2>1, <2>4 DEF AuthInv, AgreeInv, ExistInv, CreatePending
    <2>7. ASSUME NEW p \in Permissions PROVE OnInv(p)' /\ OffInv(p)'
      <3>1. OnInv(p) /\ OffInv(p)
        BY DEF AuthInv, AgreeInv
      <3>2. OnInv(p)'
        BY <2>1, <2>4, <3>1 DEF OnInv, GrantPending
      <3>3. OffInv(p)'
        BY <2>1, <2>4, <3>1 DEF OffInv, RevokePending
      <3>. QED
        BY <3>2, <3>3
    <2>8. ASSUME NEW value \in BOOLEAN PROVE SwitchInv(value)'
      BY <2>1, <2>4 DEF AuthInv, AgreeInv, SwitchInv, SwitchPending
    <2>. QED
      BY <2>2, <2>3, <2>5, <2>6, <2>7, <2>8 DEF AuthInv, TypeInv, AgreeInv
  <1>. QED
    BY <1>3, <1>4, <1>5, <1>6, <1>7, <1>8, WriteOK, WriteCannotReadOK, SendOK,
       RequestFailsOK, AnswerLostOK, DeleteOK, SetActiveOK, SetActiveCannotReadOK DEF Next

LEMMA AuthInvariant == Spec => []AuthInv
  BY InitAuthInv, StepAuthInv, PTL DEF Spec

\* Objects, requests and answers stay within their types; in particular no
\* request of a call is left once it has ended (auth.py:30-80, 108-125).
THEOREM AuthTypeCorrect == Spec => []TypeOK
  <1>1. AuthInv => TypeOK
    BY DEF AuthInv, TypeInv
  <1>. QED
    BY <1>1, AuthInvariant, PTL

\* A call that has returned has nothing left to send.
LEMMA DoneOK ==
    ASSUME AuthInv, NEW a \in Admins, NEW what, Done(a, what)
    PROVE  /\ ~CreatePending(a) /\ ~PasswordPending(a)
           /\ \A p : ~GrantPending(a, p) /\ ~RevokePending(a, p)
           /\ \A v : ~SwitchPending(a, v)
           /\ Running(a, what)
  <1>1. todo[a] = <<>>
    BY DEF AuthInv, TypeInv, TypeOK, Done
  <1>2. Pending(a) = {}
    BY <1>1, RangeOfNone DEF Pending
  <1>. QED
    BY <1>2 DEF CreatePending, PasswordPending, GrantPending, RevokePending,
                SwitchPending, Running, Done

\* A write that returns undisturbed has made the stored user or role what the
\* object was, whatever requests were sent twice or refused (auth.py:43-53,
\* 108-125, 171-198), with the role root besides if it is user root.
THEOREM WriteAlwaysTakesEffect == Spec => []WriteTakesEffect
  <1>1. ASSUME AuthInv, NEW a \in Admins, Done(a, "write"), alone[a]
        PROVE  /\ stored # Absent
               /\ stored.perms = want[a].object.perms \cup given
               /\ want[a].object.password # NoPassword =>
                     stored.password = want[a].object.password
    <2>1. Writing(a)
      BY <1>1, DoneOK DEF Writing
    <2>2. WriteInv(a)
      BY <1>1 DEF AuthInv
    <2>3. stored # Absent
      BY <1>1, <2>1, <2>2, DoneOK DEF WriteInv
    <2>4. /\ \A p \in Wanted(a).perms : p \in stored.perms
          /\ \A p \in stored.perms : p \in Wanted(a).perms \/ p \in given
          /\ Wanted(a).password # NoPassword => stored.password = Wanted(a).password
      BY <1>1, <2>1, <2>2, <2>3, DoneOK DEF WriteInv
    <2>5. given \subseteq stored.perms
      BY <1>1, <2>3 DEF AuthInv, TypeInv, GivenInv
    <2>. QED
      BY <2>3, <2>4, <2>5 DEF Wanted
  <1>2. AuthInv => WriteTakesEffect
    BY <1>1 DEF WriteTakesEffect
  <1>. QED
    BY <1>2, AuthInvariant, PTL

\* What all writers want granted is granted and what none of them wants is
\* not, the role root of user root excepted, for any number of writers and in
\* any order of their requests, and the same for the switch (auth.py:43-53,
\* 250-254).
THEOREM AgreementAlwaysPrevails == Spec => []AgreementPrevails
  <1>1. ASSUME AuthInv, \A a \in Admins : Done(a, "write")
        PROVE  /\ stored # Absent
               /\ \A p \in Permissions :
                     /\ (\A a \in Admins : p \in want[a].object.perms) => p \in stored.perms
                     /\ (\A a \in Admins : p \notin want[a].object.perms) =>
                           p \notin stored.perms \/ p \in given
    <2>1. \A a \in Admins : Writing(a)
      BY <1>1, DoneOK DEF Writing
    <2>2. stored # Absent
      BY <1>1, <2>1, DoneOK DEF AuthInv, AgreeInv, ExistInv
    <2>3. ASSUME NEW p \in Permissions, \A a \in Admins : p \in want[a].object.perms
          PROVE  p \in stored.perms
      BY <1>1, <2>1, <2>2, <2>3, DoneOK DEF AuthInv, AgreeInv, OnInv, Wanted
    <2>4. ASSUME NEW p \in Permissions, \A a \in Admins : p \notin want[a].object.perms
          PROVE  p \notin stored.perms \/ p \in given
      BY <1>1, <2>1, <2>2, <2>4, DoneOK DEF AuthInv, AgreeInv, OffInv, Wanted
    <2>. QED
      BY <2>2, <2>3, <2>4
  <1>2. ASSUME AuthInv, NEW value \in BOOLEAN,
               \A a \in Admins : Done(a, "active") /\ want[a].active = value
        PROVE  enabled = value
    BY <1>2, DoneOK DEF AuthInv, AgreeInv, SwitchInv, Switching
  <1>3. AuthInv => AgreementPrevails
    BY <1>1, <1>2 DEF AgreementPrevails
  <1>. QED
    BY <1>3, AuthInvariant, PTL
=============================================================================
