----------------------------- MODULE MCTransport -----------------------------
(* Transport with two threads, and two slaves with one key each.            *)
EXTENDS Transport, TLC

CONSTANTS th1, th2, s1, s2, page, key

MCHome == page :> s1 @@ key :> s2

=============================================================================
