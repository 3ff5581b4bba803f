--------------------------- MODULE MCSilentSignIn ---------------------------
(* A browser with two tabs, which may be exchanged. *)
EXTENDS SilentSignIn, TLC

CONSTANTS t1, t2
Tabs == {t1, t2}
TabSymmetry == Permutations(Tabs)

(* A session that neither the cookie nor a request still to be read holds is  *)
(* never asked about again: states that differ in whether it lives are one.   *)
Held == {cookie} \cup {fetch[t].who : t \in {u \in Tab : fetch[u].at = "asked"}}
                 \cup {logout[t].cookie : t \in {u \in Tab : logout[u].at = "sent"}}
HeldView == <<live \cap Held, made, cookie, blocked, signedOut, tabs>>

=============================================================================
