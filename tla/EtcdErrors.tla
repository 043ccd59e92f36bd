----------------------------- MODULE EtcdErrors -----------------------------
(***************************************************************************)
(* The exceptions of python-etcd (python-etcd/src/etcd/__init__.py): which *)
(* one an answer of etcd is turned into, and which `except' clause takes   *)
(* which of them.                                                          *)
(***************************************************************************)
EXTENDS Integers

\* The body of an error is JSON, but not every API puts an errorCode into it.
NoCode == 0

\* The base class of each exception that etcd's answers or the request engine
\* raise.  The two classes that also derive from ValueError are caught nowhere
\* as such.
Base ==
    [EtcdException |-> "Exception",
     EtcdValueError |-> "EtcdException",
     EtcdCompareFailed |-> "EtcdValueError",
     EtcdDirNotEmpty |-> "EtcdValueError",
     EtcdClusterIdChanged |-> "EtcdException",
     EtcdKeyError |-> "EtcdException",
     EtcdKeyNotFound |-> "EtcdKeyError",
     EtcdNotFile |-> "EtcdKeyError",
     EtcdNotDir |-> "EtcdKeyError",
     EtcdAlreadyExist |-> "EtcdKeyError",
     EtcdRootReadOnly |-> "EtcdKeyError",
     EtcdEventIndexCleared |-> "EtcdException",
     EtcdConnectionFailed |-> "EtcdException",
     EtcdWatchTimedOut |-> "EtcdConnectionFailed",
     EtcdInsufficientPermissions |-> "EtcdException",
     EtcdWatcherCleared |-> "EtcdException",
     EtcdLeaderElectionInProgress |-> "EtcdException",
     EtcdLockExpired |-> "EtcdException"]

Exceptions == DOMAIN Base

\* `except class' takes the exception: three levels below Exception at most.
Catches(class, exception) ==
    LET up(e) == IF e \in Exceptions THEN Base[e] ELSE e
    IN  class \in {exception, up(exception), up(up(exception)),
                   up(up(up(exception)))}

ErrorExceptions(code) ==
    CASE code = 100 -> "EtcdKeyNotFound"
      [] code = 101 -> "EtcdCompareFailed"
      [] code = 102 -> "EtcdNotFile"
      [] code = 104 -> "EtcdNotDir"
      [] code = 105 -> "EtcdAlreadyExist"
      [] code = 107 -> "EtcdRootReadOnly"
      [] code = 108 -> "EtcdDirNotEmpty"
      [] code = 110 -> "EtcdInsufficientPermissions"
      [] code \in 200..210 -> "EtcdValueError"
      [] code = 301 -> "EtcdLeaderElectionInProgress"
      [] code = 400 -> "EtcdWatcherCleared"
      [] code = 401 -> "EtcdEventIndexCleared"
      [] OTHER -> "EtcdException"

\* EtcdError.handle: two statuses outrank the code of the body.
Handle(status, code) ==
    CASE status = 404 -> "EtcdKeyNotFound"
      [] status = 401 -> "EtcdInsufficientPermissions"
      [] OTHER -> ErrorExceptions(code)

\* _handle_server_response: the response, or the exception.
HandleServerResponse(status, code) ==
    IF status \in {200, 201} THEN "ok" ELSE Handle(status, code)
=============================================================================
