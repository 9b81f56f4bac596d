---------------------------- MODULE RequestLoop ----------------------------
(***************************************************************************)
(* What the main loop of a jsvc child promises: it runs until the first    *)
(* request to stop or to reload, remembers that one whatever comes later,  *)
(* and then leaves.  The supervisor (Jsvc) takes the loop of every child   *)
(* to be this; JsvcLoop has the code of the loop and implements it.        *)
(***************************************************************************)
VARIABLES asked, \* the request accepted: none, stop or reload
          left   \* the loop has been left

rvars == <<asked, left>>

Init == asked = "none" /\ left = FALSE

(* The handler accepts a first request.                                    *)
Accept(request) ==
  /\ asked = "none" /\ ~left
  /\ asked' = request
  /\ UNCHANGED left

(* while (!stopping) ends.                                                 *)
Leave ==
  /\ asked # "none" /\ ~left
  /\ left' = TRUE
  /\ UNCHANGED asked

Next == Accept("stop") \/ Accept("reload") \/ Leave

Spec == Init /\ [][Next]_rvars /\ WF_rvars(Leave)
=============================================================================
