---------------------------- MODULE BackendSession ----------------------------
(***************************************************************************)
(* What hywdbg-core promises its front ends, with no process, pipe, lock   *)
(* or pending map in sight: the core owns at most one backend session at a *)
(* time, and every call is answered at most once, with an answer that was  *)
(* true of the session at some moment while the call was open.             *)
(*                                                                         *)
(* Sessions are named after the call that starts them.  Core.tla is shown  *)
(* to implement this module.                                               *)
(***************************************************************************)
CONSTANTS
  Calls,     \* front-end calls, each served once
  None       \* "no session", "no answer"

VARIABLES
  session,   \* the session the core owns, or None
  past,      \* every session that was ever activated
  asked,     \* asked[c]: the method of call c, None before it arrives
  bound,     \* bound[c]: the session a stop or forward call works on
  answer     \* answer[c]: [code, from], None while the call is open

vars == <<session, past, asked, bound, answer>>

Init ==
  /\ session = None
  /\ past = {}
  /\ asked = [c \in Calls |-> None]
  /\ bound = [c \in Calls |-> None]
  /\ answer = [c \in Calls |-> None]

Open(c) == asked[c] # None /\ answer[c] = None

Answer(c, code, from) == answer' = [answer EXCEPT ![c] = [code |-> code, from |-> from]]

Ask(c, m) ==
  /\ asked[c] = None
  /\ asked' = [asked EXCEPT ![c] = m]
  /\ UNCHANGED <<session, past, bound, answer>>

(* core.hello and methods the core does not know need no session. *)
AskAnsweredAtOnce(c) ==
  /\ asked[c] = None
  /\ asked' = [asked EXCEPT ![c] = "hello"]
  /\ Answer(c, "hello", None)
  /\ UNCHANGED <<session, past, bound>>

(* A status answer is the session at the instant it is given. *)
ReportStatus(c) ==
  /\ Open(c) /\ asked[c] = "status"
  /\ Answer(c, "status", session)
  /\ UNCHANGED <<session, past, asked, bound>>

(* A session starts only when there is none, and only once. *)
Activate(c) ==
  /\ Open(c) /\ asked[c] = "start"
  /\ session = None /\ c \notin past
  /\ session' = c
  /\ past' = past \union {c}
  /\ Answer(c, "started", c)
  /\ UNCHANGED <<asked, bound>>

RefuseStart(c) ==
  /\ Open(c) /\ asked[c] = "start"
  /\ session # None
  /\ Answer(c, "backend_already_active", session)
  /\ UNCHANGED <<session, past, asked, bound>>

FailStart(c, code) ==
  /\ Open(c) /\ asked[c] = "start"
  /\ code \in {"backend_hello_failed", "core_error"}
  /\ Answer(c, code, None)
  /\ UNCHANGED <<session, past, asked, bound>>

(* A stop takes the session away from everybody else before it works on it. *)
TakeForStop(c) ==
  /\ Open(c) /\ asked[c] = "stop"
  /\ bound[c] = None /\ session # None
  /\ bound' = [bound EXCEPT ![c] = session]
  /\ session' = None
  /\ UNCHANGED <<past, asked, answer>>

FinishStop(c) ==
  /\ Open(c) /\ asked[c] = "stop"
  /\ bound[c] # None
  /\ Answer(c, "stopped", bound[c])
  /\ UNCHANGED <<session, past, asked, bound>>

NothingToStop(c) ==
  /\ Open(c) /\ asked[c] = "stop"
  /\ bound[c] = None /\ session = None
  /\ Answer(c, "not_stopped", None)
  /\ UNCHANGED <<session, past, asked, bound>>

BindForward(c) ==
  /\ Open(c) /\ asked[c] = "forward"
  /\ bound[c] = None /\ session # None
  /\ bound' = [bound EXCEPT ![c] = session]
  /\ UNCHANGED <<session, past, asked, answer>>

(* The result a forward call returns is the result of its own request. *)
FinishForward(c) ==
  /\ Open(c) /\ asked[c] = "forward"
  /\ bound[c] # None
  /\ Answer(c, "forwarded", c)
  /\ UNCHANGED <<session, past, asked, bound>>

FailForward(c) ==
  /\ Open(c) /\ asked[c] = "forward"
  /\ bound[c] # None \/ session = None
  /\ Answer(c, "core_error", None)
  /\ UNCHANGED <<session, past, asked, bound>>

Next ==
  \E c \in Calls :
    \/ \E m \in {"status", "start", "stop", "forward"} : Ask(c, m)
    \/ AskAnsweredAtOnce(c)
    \/ ReportStatus(c)
    \/ Activate(c)
    \/ RefuseStart(c)
    \/ \E code \in {"backend_hello_failed", "core_error"} : FailStart(c, code)
    \/ TakeForStop(c)
    \/ FinishStop(c)
    \/ NothingToStop(c)
    \/ BindForward(c)
    \/ FinishForward(c)
    \/ FailForward(c)

Spec == Init /\ [][Next]_vars
===============================================================================
