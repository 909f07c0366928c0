---------------------------- MODULE RemoteMemory ----------------------------
(***************************************************************************)
(* What the host script, the STM32 adapter and the chip promise together: a *)
(* memory of words that one blocking client (tl_host.py) reads and writes,  *)
(* one request at a time.  Each request is performed exactly once, between  *)
(* the moment it is asked and the moment it is answered, and the answer is  *)
(* the one its performance produced.                                        *)
(*                                                                          *)
(* A word is a pair <<low half, high half>>.  The promise about the high    *)
(* half of a write is weak: it is the requested one or the one of the       *)
(* request before (the adapter may start on a request whose last two bytes  *)
(* are still on the wire).                                                  *)
(***************************************************************************)
EXTENDS Naturals

CONSTANTS Addr,   \* word addresses of the chip that the host uses
          Half    \* the values of half a word

VARIABLES mem,    \* [Addr -> Half \X Half], the chip's memory
          up,     \* whether the host script runs
          job,    \* "none", "asked" or "done": how far the request is
          req,    \* the last request asked since the script started
          stale,  \* the high half of the request before it
          res,    \* what the request's performance produced: <<written, word>>
          ans     \* what the host was last answered

avars == <<mem, up, job, req, stale, res, ans>>

Request == {r \in [put : BOOLEAN, addr : Addr, lo : Half, hi : Half] :
              ~r.put => r.lo = 0 /\ r.hi = 0}

(* Before its first request the script has asked for nothing; a harmless    *)
(* read stands for that.                                                    *)
NoRequest == [put |-> FALSE, addr |-> CHOOSE a \in Addr : TRUE, lo |-> 0, hi |-> 0]

Written == <<TRUE, <<0, 0>>>>

AInit == /\ mem = [a \in Addr |-> <<0, 0>>]
         /\ up = TRUE
         /\ job = "none"
         /\ req = NoRequest
         /\ stale = 0
         /\ res = Written /\ ans = Written

(* The host writes the request's 12 bytes to the serial port.               *)
Ask(r) == /\ up /\ job = "none"
          /\ job' = "asked"
          /\ req' = r
          /\ stale' = req.hi
          /\ UNCHANGED <<mem, up, res, ans>>

(* The chip performs the request, whether the host still waits or not.      *)
Perform ==
    /\ job = "asked"
    /\ job' = "done"
    /\ IF req.put
         THEN /\ \E hi \in {req.hi, stale} :
                   mem' = [mem EXCEPT ![req.addr] = <<req.lo, hi>>]
              /\ res' = Written
         ELSE mem' = mem /\ res' = <<FALSE, mem[req.addr]>>
    /\ UNCHANGED <<up, req, stale, ans>>

(* The host has read the 12 bytes of the answer.                            *)
Answer == /\ up /\ job = "done"
          /\ job' = "none"
          /\ ans' = res
          /\ UNCHANGED <<mem, up, req, stale, res>>

(* A hung script is killed, both boards are reset, the script starts again. *)
Abandon == up /\ job # "none" /\ up' = FALSE /\ UNCHANGED <<mem, job, req, stale, res, ans>>

Recover == /\ ~up /\ up' = TRUE
           /\ job' = "none"
           /\ req' = NoRequest
           /\ stale' = 0
           /\ res' = Written
           /\ UNCHANGED <<mem, ans>>

ANext == (\E r \in Request : Ask(r)) \/ Perform \/ Answer \/ Abandon \/ Recover

ASpec == AInit /\ [][ANext]_avars
=============================================================================
