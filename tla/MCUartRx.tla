------------------------------ MODULE MCUartRx ------------------------------
(* Buffers of four bytes and a session of three laps and a half. *)
EXTENDS UartRx, TLC

MCVal == 0 .. MaxArrivals
=============================================================================
