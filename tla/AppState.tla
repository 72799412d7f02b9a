------------------------------ MODULE AppState ------------------------------
(***************************************************************************)
(* The application's state as PlayScene feels it: whether the SKView draws.*)
(* SKView stops its frames while the application is inactive and starts    *)
(* them again afterwards.  The life-cycle handlers of AppDelegate are      *)
(* empty, so this is all that a phone call or the home button does.        *)
(***************************************************************************)
VARIABLE rendering  (* "on": frames and touches arrive; "off": inactive;   *)
                    (* "resuming": active, before the first frame          *)

RenderStates == {"on", "off", "resuming"}

ResignActive == rendering # "off" /\ rendering' = "off"
BecomeActive == rendering = "off" /\ rendering' = "resuming"
DrawFrame    == rendering # "off" /\ rendering' = "on"
=============================================================================
