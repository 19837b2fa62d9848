--------------------------- MODULE MCSessionsQuiet ---------------------------
(* Sessions observed by a clock of the clients' own: how long each of them   *)
(* has been quiet, whatever the session manager believes.                    *)
EXTENDS Sessions

VARIABLE quiet  \* ticks since the last request or login of a token

Observe ==
    quiet' = [t \in Tokens |->
                 CASE sessions_' # sessions_ /\ t \in sessions_' \ sessions_ -> 0
                   [] handler.pc = "touch_session" /\ handler'.pc = "has_lock"
                        /\ handler.token = t -> 0
                   [] idle'[t] # idle[t] \/ uptime' # uptime -> Older(quiet[t])
                   [] OTHER -> quiet[t]]

ObservedSpec ==
    /\ Init /\ quiet = [t \in Tokens |-> 0]
    /\ [][Next /\ Observe]_<<vars, quiet>>

\* last_seen is the "last request from the client" (session.hpp): a session is
\* swept only when its client has been quiet for longer than the timeout.
SweptOnlyWhenQuiet ==
    [][\A t \in sessions_ \ sessions_' : Serving(t) \/ quiet[t] > SessionTimeout]_<<vars, quiet>>
=============================================================================
