------------------------------- MODULE RelayPipe -------------------------------
(***************************************************************************)
(* What one relay channel promises to the HTTP/TLS code on the firmware    *)
(* side: per session, two byte streams that lose, repeat, reorder and mix  *)
(* nothing.  A session may die at any moment (then a prefix was            *)
(* delivered), but a session that ends in an orderly end-of-file has       *)
(* delivered the whole answer.                                             *)
(***************************************************************************)
EXTENDS Naturals, Sequences

CONSTANTS
  Sessions,    \* the sessions opened on the channel, numbered from 1
  Byte(_, _)   \* Byte(s, i): the i-th byte of a stream of session s

VARIABLES
  phase,       \* [Sessions -> "none" | "open" | "eof" | "dead"]
  written,     \* bytes the firmware handed to write() and write() counted
  served,      \* bytes the phone passed to the TLS socket
  fetched,     \* number of bytes the phone took from the TLS socket
  got          \* bytes read() returned to the firmware

pipe == <<phase, written, served, fetched, got>>

PipeInit ==
  /\ phase   = [s \in Sessions |-> "none"]
  /\ written = [s \in Sessions |-> 0]
  /\ served  = [s \in Sessions |-> <<>>]
  /\ fetched = [s \in Sessions |-> 0]
  /\ got     = [s \in Sessions |-> <<>>]

\* The i-th .. j-th bytes of a stream of session s.
Stretch(s, i, j) == [k \in 1..(j - i + 1) |-> Byte(s, i + k - 1)]

Begin(s) ==
  /\ phase[s] = "none"
  /\ \A t \in Sessions : phase[t] # "open"
  /\ phase' = [phase EXCEPT ![s] = "open"]
  /\ UNCHANGED <<written, served, fetched, got>>

Write(s) ==
  /\ phase[s] = "open"
  /\ written' = [written EXCEPT ![s] = written'[s]]
  /\ written'[s] > written[s]
  /\ UNCHANGED <<phase, served, fetched, got>>

\* The phone forwards the next bytes that were written, and only those.
Serve(s) ==
  /\ Len(served'[s]) \in (Len(served[s]) + 1)..written[s]
  /\ served' = [served EXCEPT ![s] =
                  @ \o Stretch(s, Len(@) + 1, Len(served'[s]))]
  /\ UNCHANGED <<phase, written, fetched, got>>

\* Once the firmware saw an end-of-file nothing more comes out of the socket.
Fetch(s) ==
  /\ phase[s] # "eof"
  /\ fetched'[s] > fetched[s]
  /\ fetched' = [fetched EXCEPT ![s] = fetched'[s]]
  /\ UNCHANGED <<phase, written, served, got>>

\* read() returns the next bytes the phone took from the socket.
Deliver(s) ==
  /\ phase[s] = "open"
  /\ Len(got'[s]) \in (Len(got[s]) + 1)..fetched[s]
  /\ got' = [got EXCEPT ![s] = @ \o Stretch(s, Len(@) + 1, Len(got'[s]))]
  /\ UNCHANGED <<phase, written, served, fetched>>

\* An orderly end: every byte taken from the socket has been read.
EndOfFile(s) ==
  /\ phase[s] = "open"
  /\ Len(got[s]) = fetched[s]
  /\ phase' = [phase EXCEPT ![s] = "eof"]
  /\ UNCHANGED <<written, served, fetched, got>>

Die(s) ==
  /\ phase[s] = "open"
  /\ phase' = [phase EXCEPT ![s] = "dead"]
  /\ UNCHANGED <<written, served, fetched, got>>

PipeNext ==
  \E s \in Sessions :
    \/ Begin(s) \/ Write(s) \/ Serve(s) \/ Fetch(s)
    \/ Deliver(s) \/ EndOfFile(s) \/ Die(s)

PipeSpec == PipeInit /\ [][PipeNext]_pipe
================================================================================
