---------------------------- MODULE MCAdminAccounts ----------------------------
(* AdminAccounts with two operators, who may both want the same user name, *)
(* and sessions that last for one unit of time.                            *)
EXTENDS AdminAccounts, TLC

CONSTANTS b1, b2, n1, n2, t1, t2

MCBrowsers == {b1, b2}
MCNames == {n1, n2}
=============================================================================
