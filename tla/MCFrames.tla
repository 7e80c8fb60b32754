------------------------------- MODULE MCFrames -------------------------------
(***************************************************************************)
(* Frames for TLC: every field has a value no other field of the message   *)
(* has, and one field at a time has another.                               *)
(***************************************************************************)
EXTENDS Frames

Template ==
  [type |-> 3, client_order_id |-> 11, order_id |-> 12, cancel_order_id |-> 13,
   account_id |-> 14, symbol_id |-> 15, side |-> 2, price |-> 16, qty |-> 17,
   tif |-> 1, client_ts_ns |-> 18]

Changed(field, value) == [Template EXCEPT ![field] = value]

SomeCommands ==
  {Template}
    \cup {Changed(f, 0) : f \in DOMAIN Template}
    \cup {Changed("type", n) : n \in {1, 2, 4}}
    \cup {[Changed("type", 1) EXCEPT ![f] = 0] : f \in {"order_id", "qty", "price"}}
    \cup {[Changed("type", 2) EXCEPT ![f] = 0] : f \in {"cancel_order_id", "order_id"}}
    \cup {Changed("price", -1), Changed("side", 3), Changed("tif", 2), Changed("tif", 3)}

SomeEvents ==
  [seq : 1 .. 3, type : {1, 3}, symbol_id : {15}, order_id : {12}, new_order_id : {0},
   account_id : {14}, side : {1, 2}, price : {16}, qty : {17}, reason : {0}]

SomeRecords ==
  [seq : {7, 8}, recv_ts_ns : {19}, cmd : {Template, Changed("price", -1)}]
=============================================================================
