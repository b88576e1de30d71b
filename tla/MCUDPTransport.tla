---------------------------- MODULE MCUDPTransport ----------------------------
(* An instance of DNSTransports: two exchanges, at the same time or one after *)
(* the other, over UDP on one connection or two or over streams.               *)
EXTENDS DNSTransports
===============================================================================
