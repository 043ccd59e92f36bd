------------------------------ MODULE EtcdAuth ------------------------------
(***************************************************************************)
(* Users, roles and the switch of etcd's authentication, as python-etcd    *)
(* edits them (python-etcd/src/etcd/auth.py): administrators with an       *)
(* EtcdUser or EtcdRole object each, all for one name, that read the       *)
(* stored entity, compute a difference and send it in several requests.    *)
(*                                                                         *)
(* One action is one request to etcd with what the code does until the     *)
(* next one.  A permission is a role of a user, or a path with "R" or "W"  *)
(* of a role.                                                              *)
(***************************************************************************)
EXTENDS EtcdErrors, Sequences, FiniteSets

CONSTANTS
    Admins,      \* the clients
    Roles,       \* what a user may be granted
    RootRole,    \* the role that user root has, granted or not
    Paths,       \* what a role may be granted to read and to write
    Entities,    \* a subset of {"user", "role"}
    Strict,      \* a subset of BOOLEAN: does etcd refuse what changes nothing
    Absent,      \* nothing is stored
    NoPassword,  \* _password is None, or one that no administrator here has
                 \* set; else the administrator who has
    MaxCalls,    \* bound: calls of the administrators
    MaxFaults    \* bound: requests that fail or whose answer is lost

ASSUME AuthAssumption ==
    /\ Admins # {}
    /\ RootRole \in Roles
    /\ Absent \notin [perms : SUBSET (Roles \cup (Paths \X {"R", "W"})),
                     password : Admins \cup {NoPassword}]
    /\ Entities \subseteq {"user", "role"}
    /\ Strict \subseteq BOOLEAN
    /\ NoPassword \notin Admins
    /\ MaxCalls \in Nat /\ MaxFaults \in Nat

VARIABLES
    entity, strict, root,  \* the class; the server; who has the root role
    given,     \* what etcd gives the entity of itself: RootRole to user root
    stored,    \* the user or role in etcd
    enabled,   \* is authentication on
    obj,       \* the object of each administrator
    call,      \* its last call of write, delete or the setter of `active',
               \* "none" once the object is edited again
    todo,      \* the requests this call has still to send
    outcome,   \* how it ended: "none" while it runs
    calls, faults,
    want,      \* history: what this call was to bring about
    alone      \* history: nobody else has changed the entity since

setting == <<entity, strict, root, given>>
server == <<stored, enabled>>
vars == <<setting, server, obj, call, todo, outcome, calls, faults, want, alone>>

Permissions == IF entity = "user" THEN Roles ELSE Paths \X {"R", "W"}
Passwords == Admins \cup {NoPassword}
Entity == [perms : SUBSET Permissions, password : Passwords]
Request == [perms : SUBSET Permissions, password : Passwords,
            kind : {"create", "password", "grant", "revoke", "enable", "disable"}]

TypeOK ==
    /\ entity \in Entities /\ strict \in Strict /\ root \subseteq Admins
    /\ given \in {{}, {RootRole}} /\ (entity = "role" => given = {})
    /\ stored = Absent \/ stored \in Entity
    /\ enabled \in BOOLEAN
    /\ obj \in [Admins -> Entity]
    /\ entity = "role" => \A a \in Admins : obj[a].password = NoPassword
    /\ call \in [Admins -> {"none", "write", "delete", "active"}]
    /\ todo \in [Admins -> Seq(Request)]
    /\ \A a \in Admins : Len(todo[a]) <= 3 /\ (todo[a] # <<>> => outcome[a] = "none")
    /\ outcome \in [Admins -> Exceptions \cup {"none", "ok", "AttributeError"}]
    /\ calls \in 0..MaxCalls /\ faults \in 0..MaxFaults
    /\ want \in [Admins -> [object : Entity, active : BOOLEAN]]
    /\ alone \in [Admins -> BOOLEAN]

New == [perms |-> {}, password |-> NoPassword]
Nothing == [object |-> New, active |-> FALSE]

Init ==
    /\ entity \in Entities /\ strict \in Strict /\ root \in SUBSET Admins
    /\ given \in {{}, {RootRole}} /\ (entity = "role" => given = {})
    /\ stored \in {Absent} \cup {x \in [perms : SUBSET Permissions, password : {NoPassword}] :
                                    given \subseteq x.perms}
    /\ enabled \in BOOLEAN
    /\ obj = [a \in Admins |-> New]
    /\ call = [a \in Admins |-> "none"]
    /\ todo = [a \in Admins |-> <<>>]
    /\ outcome = [a \in Admins |-> "none"]
    /\ calls = 0 /\ faults = 0
    /\ want = [a \in Admins |-> Nothing]
    /\ alone = [a \in Admins |-> FALSE]

-----------------------------------------------------------------------------
(* What etcd answers, and does.  Errors of this API have no errorCode.     *)

Denied(a) == enabled /\ a \notin root

GetStatus(a) ==
    IF Denied(a) THEN 401 ELSE IF stored = Absent THEN 404 ELSE 200

SwitchStatus(r) == IF strict /\ enabled = (r.kind = "enable") THEN 409 ELSE 200

\* A user that is created once more gets the password and keeps its roles.
CreateStatus(r) ==
    IF stored = Absent
    THEN IF strict /\ entity = "user" /\ r.password = NoPassword THEN 400 ELSE 201
    ELSE IF entity = "role" \/ r.password = NoPassword THEN 409 ELSE 200

\* A strict server refuses to grant twice and to revoke what is not granted.
Refused(r) ==
    /\ strict
    /\ \/ r.kind = "grant" /\ r.perms \cap stored.perms # {}
       \/ r.kind = "revoke" /\ ~(r.perms \subseteq stored.perms)

PutStatus(a, r) ==
    IF Denied(a) THEN 401 ELSE
    CASE r.kind \in {"enable", "disable"} -> SwitchStatus(r)
      [] r.kind = "create" -> CreateStatus(r)
      [] OTHER -> IF stored = Absent THEN 404 ELSE IF Refused(r) THEN 409 ELSE 200

Accepted(a, r) == PutStatus(a, r) \in {200, 201}

\* The entity after a request that was accepted, as it is read.  User root has
\* the role root although no request names it, and after one that revokes it
\* (the set-up of the tests, test_auth.py:11-13, writes the user without roles
\* before each test, and test_auth.py:49 reads the role).
Stored(r) ==
    CASE r.kind = "create" -> IF stored = Absent
                              THEN [perms |-> r.perms \cup given, password |-> r.password]
                              ELSE [stored EXCEPT !.password = r.password]
      [] r.kind = "password" -> [stored EXCEPT !.password = r.password]
      [] r.kind = "grant" -> [stored EXCEPT !.perms = @ \cup r.perms]
      [] r.kind = "revoke" -> [stored EXCEPT !.perms = @ \ (r.perms \ given)]
      [] OTHER -> stored

Execute(a, r) ==
    /\ stored' = IF Accepted(a, r) THEN Stored(r) ELSE stored
    /\ enabled' = IF Accepted(a, r) /\ r.kind \in {"enable", "disable"}
                  THEN r.kind = "enable" ELSE enabled
    /\ alone' = [b \in Admins |-> alone[b] /\ (b = a \/ stored' = stored)]

Fault ==
    /\ faults < MaxFaults
    /\ faults' = faults + 1

-----------------------------------------------------------------------------
(* The objects. *)

Idle(a) == todo[a] = <<>>

\* Editing is of use only if a call can follow.
Edit(a, x) ==
    /\ Idle(a)
    /\ calls < MaxCalls
    /\ obj' = [obj EXCEPT ![a] = x]
    /\ call' = [call EXCEPT ![a] = "none"]
    /\ outcome' = [outcome EXCEPT ![a] = "none"]
    /\ want' = [want EXCEPT ![a] = Nothing]
    /\ alone' = [alone EXCEPT ![a] = FALSE]
    /\ UNCHANGED <<setting, server, todo, calls, faults>>

SetRoles(a, roles) ==
    /\ entity = "user"
    /\ Edit(a, [obj[a] EXCEPT !.perms = roles])

SetPassword(a) ==
    /\ entity = "user"
    /\ Edit(a, [obj[a] EXCEPT !.password = a])

\* __str__ of a user takes the payload of its creation, which blanks it.
Str(a) ==
    /\ entity = "user"
    /\ Edit(a, [obj[a] EXCEPT !.password = NoPassword])

\* The letters of a permission: "R", "W", "RW".
Grant(a, path, letters) ==
    /\ entity = "role"
    /\ Edit(a, [obj[a] EXCEPT !.perms = @ \cup ({path} \X letters)])

Revoke(a, path, letters) ==
    /\ entity = "role"
    /\ Edit(a, [obj[a] EXCEPT !.perms = @ \ ({path} \X letters)])

\* The setter of acls: a dictionary from paths to letters.
SetAcls(a, acls) ==
    /\ entity = "role"
    /\ Edit(a, [obj[a] EXCEPT !.perms =
                   UNION {{path} \X acls[path] : path \in DOMAIN acls}])

-----------------------------------------------------------------------------
(* The requests of a call. *)

NewRequest(kind, perms, password) ==
    [perms |-> perms, password |-> password, kind |-> kind]

Change(kind, perms) ==
    IF perms = {} THEN <<>> ELSE <<NewRequest(kind, perms, NoPassword)>>

\* EtcdUser._to_net and EtcdRole._to_net: what changes `old' into the object x.
Creation(x) == <<NewRequest("create", x.perms, x.password)>>

UserToNet(x, old) ==
    LET password == IF x.password = NoPassword THEN <<>>
                    ELSE <<NewRequest("password", {}, x.password)>>
    IN  password \o Change("grant", x.perms \ old.perms)
                 \o Change("revoke", old.perms \ x.perms)

RoleToNet(x, old) ==
    Change("revoke", old.perms \ x.perms) \o Change("grant", x.perms \ old.perms)

\* Mutant of ToNet: the differences are taken the wrong way round.
ToNetSwapped(x, old) ==
    IF old = Absent THEN Creation(x) ELSE RoleToNet([old EXCEPT !.password = NoPassword], x)

ToNet(x, old) ==
    CASE old = Absent -> Creation(x)
      [] old # Absent /\ entity = "user" -> UserToNet(x, old)
      [] old # Absent /\ entity = "role" -> RoleToNet(x, old)

\* _from_net: the permissions are those of the answer.
FromNet(x, answer) == [x EXCEPT !.perms = answer.perms]

\* read: everything but these two becomes an EtcdException.
ReadRaises(e) ==
    IF \E class \in {"EtcdInsufficientPermissions", "EtcdKeyNotFound"} : Catches(class, e)
    THEN e ELSE "EtcdException"

WriteRaises(e) ==
    IF Catches("EtcdInsufficientPermissions", e) THEN e ELSE "EtcdException"

\* The generic handler of delete looks up self._base_uri, which is not there.
DeleteRaises(e) ==
    IF \E class \in {"EtcdInsufficientPermissions", "EtcdKeyNotFound"} : Catches(class, e)
    THEN e ELSE "AttributeError"

Raises(a, e) ==
    CASE call[a] = "write" -> WriteRaises(e)
      [] call[a] = "active" -> e

\* A call that is still to send requests, or has ended.
Calls(a, what, requests, how) ==
    /\ Idle(a)
    /\ calls < MaxCalls
    /\ calls' = calls + 1
    /\ call' = [call EXCEPT ![a] = what]
    /\ todo' = [todo EXCEPT ![a] = requests]
    /\ outcome' = [outcome EXCEPT ![a] = IF requests = <<>> THEN how ELSE "none"]
    /\ UNCHANGED setting

-----------------------------------------------------------------------------
(* read, write, delete, and Auth.active. *)

Read(a) ==
    /\ GetStatus(a) = 200
    /\ Edit(a, FromNet(obj[a], stored))

\* Mutant of Write: another object than the one just read is the old state.
WriteBlind(a) ==
    /\ GetStatus(a) \in {200, 404}
    /\ Calls(a, "write", ToNet(obj[a], IF stored = Absent THEN Absent ELSE New), "ok")
    /\ obj' = [obj EXCEPT ![a].password = NoPassword]
    /\ want' = [want EXCEPT ![a] = [Nothing EXCEPT !.object = obj[a]]]
    /\ alone' = [alone EXCEPT ![a] = TRUE]
    /\ UNCHANGED <<server, faults>>

\* The requests are computed at once, and the password is blanked.
Write(a) ==
    /\ GetStatus(a) \in {200, 404}
    /\ Calls(a, "write", ToNet(obj[a], stored), "ok")
    /\ obj' = [obj EXCEPT ![a].password = NoPassword]
    /\ want' = [want EXCEPT ![a] = [Nothing EXCEPT !.object = obj[a]]]
    /\ alone' = [alone EXCEPT ![a] = TRUE]
    /\ UNCHANGED <<server, faults>>

\* The object that is to be compared with cannot be read.
WriteCannotRead(a) ==
    /\ \/ GetStatus(a) = 401
          /\ Calls(a, "write", <<>>, ReadRaises(Handle(401, NoCode)))
          /\ UNCHANGED faults
       \/ Fault
          /\ Calls(a, "write", <<>>, ReadRaises("EtcdConnectionFailed"))
    /\ want' = [want EXCEPT ![a] = Nothing]
    /\ alone' = [alone EXCEPT ![a] = FALSE]
    /\ UNCHANGED <<server, obj>>

\* One payload: what etcd answers replaces what the object held.
Send(a) ==
    /\ todo[a] # <<>>
    /\ Execute(a, Head(todo[a]))
    /\ IF Accepted(a, Head(todo[a]))
       THEN /\ todo' = [todo EXCEPT ![a] = Tail(@)]
            /\ outcome' = [outcome EXCEPT ![a] = IF Len(todo[a]) = 1 THEN "ok" ELSE @]
            /\ obj' = IF call[a] = "write"
                      THEN [obj EXCEPT ![a] = FromNet(@, stored')] ELSE obj
       ELSE /\ todo' = [todo EXCEPT ![a] = <<>>]
            /\ outcome' = [outcome EXCEPT ![a] =
                              Raises(a, Handle(PutStatus(a, Head(todo[a])), NoCode))]
            /\ UNCHANGED obj
    /\ UNCHANGED <<setting, call, calls, faults, want>>

\* Mutant of RequestFails: the rest of the payloads is not given up.
RequestFailsGoesOn(a) ==
    /\ todo[a] # <<>>
    /\ Fault
    /\ outcome' = [outcome EXCEPT ![a] = Raises(a, "EtcdConnectionFailed")]
    /\ UNCHANGED <<setting, server, obj, call, todo, calls, want, alone>>

\* Executed or not, there is no answer, and no server is left to ask.
RequestFails(a) ==
    /\ todo[a] # <<>>
    /\ Fault
    /\ Execute(a, Head(todo[a])) \/ UNCHANGED <<server, alone>>
    /\ todo' = [todo EXCEPT ![a] = <<>>]
    /\ outcome' = [outcome EXCEPT ![a] = Raises(a, "EtcdConnectionFailed")]
    /\ UNCHANGED <<setting, obj, call, calls, want>>

\* Executed, and sent again to the next server.
AnswerLost(a) ==
    /\ todo[a] # <<>>
    /\ Fault
    /\ Execute(a, Head(todo[a]))
    /\ UNCHANGED <<setting, obj, call, todo, outcome, calls, want>>

\* Executed with its answer lost and sent again, a deletion finds nothing.
Delete(a) ==
    /\ \/ /\ GetStatus(a) = 200
          /\ Calls(a, "delete", <<>>, "ok")
          /\ stored' = Absent
          /\ UNCHANGED faults
       \/ /\ GetStatus(a) # 200
          /\ Calls(a, "delete", <<>>, DeleteRaises(Handle(GetStatus(a), NoCode)))
          /\ UNCHANGED <<stored, faults>>
       \/ /\ Fault
          /\ Calls(a, "delete", <<>>, DeleteRaises("EtcdConnectionFailed"))
          /\ stored' \in {stored, IF Denied(a) THEN stored ELSE Absent}
       \/ /\ Fault
          /\ GetStatus(a) = 200
          /\ Calls(a, "delete", <<>>, DeleteRaises(Handle(404, NoCode)))
          /\ stored' = Absent
    /\ want' = [want EXCEPT ![a] = Nothing]
    /\ alone' = [b \in Admins |-> b # a /\ alone[b] /\ stored' = stored]
    /\ UNCHANGED <<enabled, obj>>

\* Everybody may ask whether it is on; the setter then flips it.
SetActive(a, value) ==
    /\ Calls(a, "active",
             IF value = enabled THEN <<>>
             ELSE <<NewRequest(IF value THEN "enable" ELSE "disable", {}, NoPassword)>>,
             "ok")
    /\ want' = [want EXCEPT ![a] = [Nothing EXCEPT !.active = value]]
    /\ alone' = [alone EXCEPT ![a] = FALSE]
    /\ UNCHANGED <<server, obj, faults>>

SetActiveCannotRead(a) ==
    /\ Fault
    /\ Calls(a, "active", <<>>, "EtcdConnectionFailed")
    /\ want' = [want EXCEPT ![a] = Nothing]
    /\ alone' = [alone EXCEPT ![a] = FALSE]
    /\ UNCHANGED <<server, obj>>

-----------------------------------------------------------------------------
Next ==
    \E a \in Admins :
        \/ \E roles \in SUBSET Roles : SetRoles(a, roles)
        \/ SetPassword(a)
        \/ Str(a)
        \/ \E path \in Paths, letters \in SUBSET {"R", "W"} :
              Grant(a, path, letters) \/ Revoke(a, path, letters)
        \/ \E acls \in [Paths -> SUBSET {"R", "W"}] : SetAcls(a, acls)
        \/ Read(a)
        \/ Write(a)
        \/ WriteCannotRead(a)
        \/ Send(a)
        \/ RequestFails(a)
        \/ AnswerLost(a)
        \/ Delete(a)
        \/ \E value \in BOOLEAN : SetActive(a, value)
        \/ SetActiveCannotRead(a)

Spec == Init /\ [][Next]_vars

-----------------------------------------------------------------------------
(* Properties. *)

Done(a, what) == call[a] = what /\ outcome[a] = "ok"

\* A write that returns, and that nobody has come between, has made the stored
\* entity what the object was, in however many requests it took and however
\* often they were sent (auth.py:43-53, 108-125, 171-198); user root has the
\* role root besides, whether the object has it or not (test_auth.py:11-13, 49).
WriteTakesEffect ==
    \A a \in Admins :
        Done(a, "write") /\ alone[a] =>
            /\ stored # Absent
            /\ stored.perms = want[a].object.perms \cup given
            /\ want[a].object.password # NoPassword => stored.password = want[a].object.password

\* Concurrent writers overwrite one another, but not where they agree: when all
\* have written, what all of them wanted is granted, and nothing is that none
\* of them wanted but the role root of user root (auth.py:43-53, test_auth.py:
\* 11-13, 49).  The same for the switch (auth.py:250-254).
AgreementPrevails ==
    /\ (\A a \in Admins : Done(a, "write")) =>
          /\ stored # Absent
          /\ \A p \in Permissions :
                /\ (\A a \in Admins : p \in want[a].object.perms) => p \in stored.perms
                /\ (\A a \in Admins : p \notin want[a].object.perms) =>
                      p \notin stored.perms \/ p \in given
    /\ \A value \in BOOLEAN :
          (\A a \in Admins : Done(a, "active") /\ want[a].active = value) => enabled = value
=============================================================================
