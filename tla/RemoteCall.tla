----------------------------- MODULE RemoteCall -----------------------------
(***************************************************************************)
(* What a remote procedure call promises its caller, as the comment of     *)
(* labrpc.go has it: true says that the server has executed the request,   *)
(* false says nothing, since the request, the execution or the reply may   *)
(* have got lost, or be still to come.  No request is executed twice.      *)
(***************************************************************************)
EXTENDS Naturals

CONSTANT Call

VARIABLES status,               \* of a call: idle, pending, true or false
          executed              \* how often a call was executed

vars == <<status, executed>>

Init == /\ status = [c \in Call |-> "idle"]
        /\ executed = [c \in Call |-> 0]

Become(c, from, to) == status[c] = from /\ status' = [status EXCEPT ![c] = to]

Issue(c) == Become(c, "idle", "pending") /\ UNCHANGED executed

Execute(c) ==
  /\ status[c] \in {"pending", "false"} /\ executed[c] = 0
  /\ executed' = [executed EXCEPT ![c] = 1]
  /\ UNCHANGED status

Succeed(c) ==
  executed[c] = 1 /\ Become(c, "pending", "true") /\ UNCHANGED executed

\* at once, when there is no network any more
Fail(c) ==
  /\ Become(c, "pending", "false") \/ Become(c, "idle", "false")
  /\ UNCHANGED executed

Next == \E c \in Call : Issue(c) \/ Execute(c) \/ Succeed(c) \/ Fail(c)

Spec == Init /\ [][Next]_vars
=============================================================================
