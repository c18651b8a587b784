----------------------------- MODULE MCTxSerie -----------------------------
(* A ring of 8 bytes, a frame of four and one of three with bytes that     *)
(* differ by place, so that a byte out of its place is seen.               *)
EXTENDS TxSerie

MCTramas == {<<1, 2, 3, 4>>, <<5, 6, 7>>}
=============================================================================
