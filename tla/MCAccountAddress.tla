--------------------------- MODULE MCAccountAddress ---------------------------
(* Keys of two bytes.  y is below the field's prime, so its top bit is free  *)
(* for the sign; its last byte takes every value, so that the checksum       *)
(* reaches the whole table.                                                  *)
EXTENDS AccountAddress

MCPublicKeys ==
  {<<4, x1, x2, y1, y2>> :
     x1 \in {0, 1}, x2 \in {6, 7}, y1 \in {0, 85, 127}, y2 \in 0..255}
=============================================================================
