------------------------------- MODULE Packets -------------------------------
(***************************************************************************)
(* The packets of the HID protocol: how a message is cut into packets in   *)
(* either framing, how a reply and a typed string are put together again   *)
(* from packets that come interleaved, and how the framing is found out.   *)
(***************************************************************************)
EXTENDS Naturals, Sequences, FiniteSets, SequencesExt

CONSTANTS
  PacketSize,   \* PACKET_SIZE
  MaxPackets,   \* packets read for one reply
  Rounds        \* DETECT_ROUNDS

ASSUME PacketsAssumption == PacketSize \in Nat /\ PacketSize > 3 /\ Rounds \in Nat \ {0}

Header == 2
MaxPayload == PacketSize - Header
\* max_payload_size: the VIAL prefix takes one byte more.
Room(framing) == IF framing = "vial" THEN MaxPayload - 1 ELSE MaxPayload

Zeros(n) == [i \in 1 .. n |-> 0]
TrimZeros(s) == SubSeq(s, 1, Cardinality({i \in DOMAIN s : \E j \in i .. Len(s) : s[j] # 0}))

\* set_payload: the rest of the packet is zero.
Packet(start, end, cmd, bytes) ==
  [start |-> start, end |-> end, cmd |-> cmd, data |-> bytes \o Zeros(MaxPayload - Len(bytes))]

\* build_chunked_packets; an empty payload still makes one packet.
Chunked(cmd, payload, framing) ==
  LET room == Room(framing)
      n    == (Len(payload) + room - 1) \div room
      Chunk(i) == SubSeq(payload, (i - 1) * room + 1, IF i = n THEN Len(payload) ELSE i * room)
  IN IF payload = <<>> THEN <<Packet(TRUE, TRUE, cmd, <<>>)>>
     ELSE [i \in 1 .. n |-> Packet(i = 1, i = n, cmd, Chunk(i))]

\* send_single_packet: the prefix pushes the last byte out.
OnWire(p, framing) ==
  [prefixed |-> framing = "vial", start |-> p.start, end |-> p.end, cmd |-> p.cmd,
   bytes |-> SubSeq(p.data, 1, Room(framing))]

\* What is payload of the bytes that came; the byte freed by the prefix is not.
\* (Mutant: it is.)
PayloadWithPad(w, framing) == w.bytes \o Zeros(1)
Payload(w, framing) == SubSeq(w.bytes, 1, Room(framing))

\* read_raw_packet: in VIAL framing packets without the prefix are echoes, and
\* skipped.
Received(w, framing) ==
  IF framing = "vial" /\ ~w.prefixed THEN <<>>
  ELSE <<[start |-> w.start, end |-> w.end, cmd |-> w.cmd,
          payload |-> Payload(w, framing)]>>

-----------------------------------------------------------------------------
\* dispatch_incoming_packet, of a string the device types: the chunks are
\* gathered in a buffer of the link, and emitted at the last.
\* (Mutant: a first chunk does not begin anew.)
GatheredOn(sofar, p) == sofar \o p.payload
Gathered(sofar, p) == (IF p.start THEN <<>> ELSE sofar) \o p.payload

Type(st, p) ==
  LET buf == Gathered(st.buf, p)
  IN IF p.end /\ buf # <<>>
     THEN [st EXCEPT !.buf = <<>>, !.typed = Append(@, TrimZeros(Tail(buf)))]
     ELSE [st EXCEPT !.buf = buf]

\* read_response: packets the device sends by itself are dispatched, those of
\* other commands skipped, and the reply is complete with its last chunk.
Reply(st, p, expected) ==
  IF st.reply # "none" \/ st.count = MaxPackets THEN
    IF p.cmd = "type" THEN Type(st, p) ELSE st
  ELSE LET counted == [st EXCEPT !.count = @ + 1] IN
    CASE p.cmd = "type" -> Type(counted, p)
      [] p.cmd = "key" -> [counted EXCEPT !.keys = @ + 1]
      [] p.cmd \notin {"type", "key", expected, "error"} -> counted
      [] p.cmd \in {expected, "error"} ->
           LET payload == Gathered(st.payload, p)
               started == st.started \/ p.start
           IN IF ~started THEN counted
              ELSE [counted EXCEPT !.started = TRUE, !.payload = payload,
                                   !.reply = IF ~p.end THEN "none"
                                             ELSE IF p.cmd = "error" THEN "refused" ELSE "ok"]

Reading == [buf |-> <<>>, typed |-> <<>>, keys |-> 0, started |-> FALSE, payload |-> <<>>,
            reply |-> "none", count |-> 0]

\* A reply, put together from packets in the order they come.
ReadResponse(packets, expected) ==
  LET Step(st, p) == Reply(st, p, expected)
      end == FoldLeft(Step, Reading, packets)
  IN [end EXCEPT !.payload = TrimZeros(@)]

-----------------------------------------------------------------------------
\* detect_protocol_mode.  Per probe, `answer` says when the firmware's answer to
\* it comes: "prompt"; "late", while the leftovers are drained; or "never".  An
\* answer with an error status, "refused", settles on standalone, its version
\* unknown, but is no answer to a prefixed probe.  VIA echoes a probe that is not
\* prefixed, which reads as an empty version.
Probe(firmware, answer) ==
  IF firmware = "vial" THEN IF answer \in {"prompt", "late"} THEN "vial" ELSE "none"
  ELSE IF answer \in {"prompt", "refused"} THEN "standalone" ELSE "none"

Detected(firmware, answers) ==
  LET found == SelectSeq([r \in 1 .. Rounds |-> Probe(firmware, answers[r])],
                         LAMBDA x : x # "none")
  IN IF found = <<>> THEN "standalone" ELSE Head(found)
=============================================================================
