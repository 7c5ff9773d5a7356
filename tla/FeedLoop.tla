------------------------------ MODULE FeedLoop ------------------------------
(***************************************************************************)
(* parse::feed (src/libdvbtee/parse.cpp): the loop that cuts a buffer into *)
(* transport stream packets, finds its place again after a loss of sync,   *)
(* drops packets with an error, detaches the pids of complete EITs and     *)
(* passes the rest on.                                                     *)
(*                                                                         *)
(* A packet has Size bytes instead of 188.  A byte is 0, or it is 0x47 with*)
(* what the bytes behind it make of it, were it the first one of a packet: *)
(*   "data"   a pid that is decoded or asked for: it is passed on          *)
(*   "tei"    any pid, with the transport error indicator                  *)
(*   "eit"    a pid that the MGT names for an EIT                          *)
(* Data may look like a header by accident.                                *)
(***************************************************************************)
EXTENDS Integers, Sequences

CONSTANTS
  Size,     \* bytes of a packet
  Packets   \* packets that the buffer has room for: count / Size

ASSUME FeedLoopAssumption == Size \in Nat \ {0, 1} /\ Packets \in Nat \ {0}

Headers == {"data", "tei", "eit"}
Bytes == Headers \cup {"0"}
Count == Size * Packets

VARIABLES
  buf,          \* the buffer
  stale,        \* what memory holds behind it
  i,            \* packets that are left, as the loop counts
  p,            \* where the next one begins
  sync_offset,  \* bytes skipped for it, modulo Size
  at,           \* "top" of the loop, "sync" search, "packet" found, "done"
  eit_pid,      \* the EIT pid: "collecting", "complete" or "detached"
  out,          \* where the packets passed on begin
  skipped       \* history: bytes skipped in search of sync

vars == <<buf, stale, i, p, sync_offset, at, eit_pid, out, skipped>>

\* The byte at offset q.
Byte(q) == IF q < Count THEN buf[q + 1] ELSE stale

\* The pid is -1 where no packet can begin.
NoPacket(q) == Byte(q) = "0"

Init ==
  /\ buf \in [1 .. Count -> Bytes]
  /\ stale \in {"0", "data"}
  /\ i = Packets /\ p = 0 /\ sync_offset = 0
  /\ at = "top"
  /\ eit_pid \in {"collecting", "complete"}
  /\ out = <<>>
  /\ skipped = 0

\* Mutant: the loop ends when no packet is left, exactly.
Return_AtZero ==
  /\ at = "top" /\ i = 0
  /\ at' = "done"
  /\ UNCHANGED <<buf, stale, i, p, sync_offset, eit_pid, out, skipped>>

Return ==
  /\ at = "top" /\ i <= 0
  /\ at' = "done"
  /\ UNCHANGED <<buf, stale, i, p, sync_offset, eit_pid, out, skipped>>

Parse ==
  /\ at = "top" /\ i > 0
  /\ at' = "sync"
  /\ sync_offset' = 0
  /\ UNCHANGED <<buf, stale, i, p, eit_pid, out, skipped>>

\* Mutant: the last packet has to be followed by one, too.
InSync_Last == ~(i > 0 /\ NoPacket(p)) /\ ~(i > 0 /\ NoPacket(p + Size))

\* A packet counts as found if another one follows.
InSync == ~(i > 0 /\ NoPacket(p)) /\ ~(i > 1 /\ NoPacket(p + Size))

Skip ==
  /\ at = "sync" /\ ~InSync
  /\ p' = p + 1
  /\ sync_offset' = IF sync_offset + 1 = Size THEN 0 ELSE sync_offset + 1
  /\ i' = IF sync_offset + 1 = Size THEN i - 1 ELSE i
  /\ skipped' = skipped + 1
  /\ UNCHANGED <<buf, stale, at, eit_pid, out>>

Found ==
  /\ at = "sync" /\ InSync
  /\ at' = "packet"
  /\ UNCHANGED <<buf, stale, i, p, sync_offset, eit_pid, out, skipped>>

\* process_err_pkts is off, as ever.  continue: i counts down and p stays.
TransportError ==
  /\ at = "packet" /\ Byte(p) = "tei"
  /\ at' = "top" /\ i' = i - 1
  /\ UNCHANGED <<buf, stale, p, sync_offset, eit_pid, out, skipped>>

\* The pid of a complete EIT is detached; continue.
EitComplete ==
  /\ at = "packet" /\ Byte(p) = "eit" /\ eit_pid = "complete"
  /\ eit_pid' = "detached"
  /\ at' = "top" /\ i' = i - 1
  /\ UNCHANGED <<buf, stale, p, sync_offset, out, skipped>>

\* Mutant: the place is found again from the end of the buffer.
PassOn_FromEnd ==
  /\ at = "packet"
  /\ Byte(p) = "data" \/ (Byte(p) = "eit" /\ eit_pid = "collecting")
  /\ out' = Append(out, p)
  /\ eit_pid' \in IF Byte(p) = "eit" THEN {"collecting", "complete"} ELSE {eit_pid}
  /\ at' = "top" /\ i' = i - 1 /\ p' = Count - Size * (i - 1)
  /\ UNCHANGED <<buf, stale, sync_offset, skipped>>

\* A packet of the EIT pid goes to its decoder and may complete the table.
PassOn ==
  /\ at = "packet"
  /\ Byte(p) = "data" \/ (Byte(p) = "eit" /\ eit_pid = "collecting")
  /\ out' = Append(out, p)
  /\ eit_pid' \in IF Byte(p) = "eit" THEN {"collecting", "complete"} ELSE {eit_pid}
  /\ at' = "top" /\ i' = i - 1 /\ p' = p + Size
  /\ UNCHANGED <<buf, stale, sync_offset, skipped>>

\* Nobody wants the packet, or the search ran out of packets.
PassOver ==
  /\ at = "packet"
  /\ Byte(p) = "0" \/ (Byte(p) = "eit" /\ eit_pid = "detached")
  /\ at' = "top" /\ i' = i - 1 /\ p' = p + Size
  /\ UNCHANGED <<buf, stale, sync_offset, eit_pid, out, skipped>>

Next ==
  \/ Return \/ Parse \/ Skip \/ Found
  \/ TransportError \/ EitComplete \/ PassOn \/ PassOver

Spec == Init /\ [][Next]_vars
FairSpec == Spec /\ WF_vars(Next)

-----------------------------------------------------------------------------
(* Properties.                                                             *)

TypeOK ==
  /\ buf \in [1 .. Count -> Bytes] /\ stale \in Bytes
  /\ i \in -1 .. Packets /\ p \in 0 .. Size * Count /\ sync_offset \in 0 .. Size - 1
  /\ at \in {"top", "sync", "packet", "done"}
  /\ eit_pid \in {"collecting", "complete", "detached"}
  /\ \A k \in DOMAIN out : out[k] \in 0 .. Size * Count
  /\ skipped \in Nat

\* No byte is passed on twice and what is passed on begins like a packet,
\* whatever was skipped (the counts of i, p and sync_offset in feed).
NoByteTwice ==
  /\ \A a, b \in DOMAIN out : a < b => out[a] + Size <= out[b]
  /\ \A a \in DOMAIN out : ~NoPacket(out[a])

\* As long as sync was never lost the packets passed on lie in the buffer: the
\* count of the packets and the pointer keep step (the two counts of feed).
InBuffer == skipped = 0 => \A a \in DOMAIN out : out[a] + Size <= Count

\* A buffer full of packets that are asked for is passed on whole, even if there
\* are bytes inside that look like headers.
Starts == {Size * n : n \in 0 .. Packets - 1}
Passed == {out[a] : a \in DOMAIN out}
AllPassedOn == at = "done" /\ (\A q \in Starts : Byte(q) = "data") => Passed = Starts

\* feed() returns, also from a buffer without a single packet.
FeedReturns == <>(at = "done")
=============================================================================
