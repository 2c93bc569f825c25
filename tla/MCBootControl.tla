--------------------------- MODULE MCBootControl ---------------------------
(* Instances of BootControl for TLC.                                       *)
EXTENDS BootControlRegister

(* A phone that runs slot 0 and has slot 1 as an update left it: fresh,    *)
(* unbootable, or with its retries spent.                                  *)
FromSlot0 ==
  {[s \in Slots |-> IF s = 0
      THEN [active |-> TRUE, successful |-> TRUE, unbootable |-> FALSE,
            retry |-> MaxRetry]
      ELSE [active |-> FALSE, successful |-> FALSE, unbootable |-> u,
            retry |-> r]] : u \in BOOLEAN, r \in 0 .. MaxRetry}

FreshPhone == {t \in FromSlot0 : ~t[1].unbootable /\ t[1].retry = MaxRetry}
=============================================================================
