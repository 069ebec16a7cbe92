----------------------------- MODULE MCSessions -----------------------------
(* Two tabs of one browser: one at the login page, one that is worked in. *)
EXTENDS Sessions, TLC

CONSTANTS tab1, tab2

MCTabs == {tab1, tab2}
MCDuties == (tab1 :> {"login", "consent", "refresh", "password", "forget"})
              @@ (tab2 :> {"refresh", "logout", "lock", "right", "wrong", "setPin"})
=============================================================================
