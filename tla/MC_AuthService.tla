-------------------------- MODULE MC_AuthService --------------------------
(* A small instance of AuthService for TLC.                                *)
EXTENDS AuthService, TLC

CONSTANTS g1, c1, c2, c3, c4

Login(pw, ext) == [op |-> "LOGIN", password |-> pw, external |-> ext]
On(o, t) == [op |-> o, token |-> t, gw |-> g1]

(* Logins with the right and with the wrong password, at once or one after *)
(* the other; or one session that is refreshed, used and closed, and used  *)
(* again.                                                                  *)
MCRequests ==
    (c1 :> {Login(TRUE, FALSE), Login(TRUE, TRUE), Login(FALSE, FALSE)}) @@
    (c2 :> {Login(FALSE, FALSE), On("REFRESH", c1), On("LOGOUT", c1)}) @@
    (c3 :> {Login(FALSE, FALSE), Login(TRUE, FALSE), On("REFRESH", c1), On("USE", c1), On("USE", c2)}) @@
    (c4 :> {On("USE", c1)})

(* The last call comes after a logout and another use, which may have been *)
(* under way during the logout.                                            *)
AfterLogout ==
    call[c4].pc = "idle" /\ call'[c4].pc # "idle" =>
      Logouts(c1) # {} /\ Done(c3) /\ Req(c3).op = "USE"

MCSpec == Init /\ [][Next /\ AfterLogout]_vars
=============================================================================
