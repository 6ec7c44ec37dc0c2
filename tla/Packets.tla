------------------------------ MODULE Packets ------------------------------
(***************************************************************************)
(* The wire: what a client puts into the body of a request, packet after   *)
(* packet, what the reader makes of it under the handlers' reads, and what *)
(* is written back.                                                        *)
(*                                                                         *)
(* A packet is its id, its length and its data, all of them bytes.  Floats *)
(* are bytes nobody looks at, and strings are their encoded bytes.         *)
(*                                                                         *)
(* The client is external: it writes the fields that the handlers read,    *)
(* and a match as the server writes one.                                   *)
(***************************************************************************)
EXTENDS Integers, Sequences, SequencesExt, FiniteSetsExt

CONSTANTS
    Sent,          \* what a client may send: [kind, args]
    Stats,         \* a player's [pp, rscore], of which !stats are written
    Slots,         \* slots of a match (16 in the code)
    MySlot,        \* the slot of the sender, counted from 0
    MaxSent        \* bound: packets of a request

VARIABLES
    restricted,    \* the handlers are those for restricted players
    sent,          \* the packets of the request
    body,          \* body_view: the bytes not read yet
    posted,        \* the request has been made
    handled,       \* what the reader gave to handlers, in order
    out            \* the bytes enqueued for somebody by handlers

wvars == <<restricted, sent, body, posted, handled, out>>

-----------------------------------------------------------------------------
(* Integers and strings.                                                    *)

Width == [i8 |-> 1, u8 |-> 1, i16 |-> 2, u16 |-> 2, i32 |-> 4, u32 |-> 4, i64 |-> 8, f32 |-> 4, f64 |-> 8]
SignedTypes == {"i8", "i16", "i32", "i64"}

Byte == 0..255

\* What is left of n without its k lowest bytes, and the number that has these
\* digits, the lowest first.
Shifted(n, k) == LET shifted[j \in 0..k] == IF j = 0 THEN n ELSE shifted[j - 1] \div 256 IN shifted[k]
Number(digits, base) ==
    LET number[k \in 0..Len(digits)] == IF k = 0 THEN 0 ELSE digits[Len(digits) - k + 1] + base * number[k - 1]
    IN  number[Len(digits)]

\* Little-endian, two's complement.
WriteInt(n, width) == [k \in 1..width |-> Shifted(n, k - 1) % 256]
ReadInt(bytes, signed) ==
    Number(IF signed /\ Last(bytes) > 127 THEN [bytes EXCEPT ![Len(bytes)] = @ - 256] ELSE bytes, 256)

\* Seven bits to a byte, the lowest first, a high bit on all but the last.
write_uleb128(num) ==
    LET rest[n \in 0..num] == IF n < 128 THEN <<n>> ELSE <<(n % 128) + 128>> \o rest[n \div 128]
    IN  rest[num]
UlebLength(bytes) == Min({k \in DOMAIN bytes : bytes[k] < 128})
UlebValue(bytes) == Number([k \in DOMAIN bytes |-> bytes[k] % 128], 128)

write_string(s) == IF s = <<>> THEN <<0>> ELSE <<11>> \o write_uleb128(Len(s)) \o s

\* A reading gives what was read and what is left.
Reading(val, rest) == [val |-> val, rest |-> rest]
Drop(bytes, n) == SubSeq(bytes, n + 1, Len(bytes))

read_int(bytes, type) ==
    Reading(ReadInt(SubSeq(bytes, 1, Width[type]), type \in SignedTypes), Drop(bytes, Width[type]))

read_string(bytes) ==
    IF bytes[1] # 11 THEN Reading(<<>>, Tail(bytes))
    ELSE LET n   == UlebLength(Tail(bytes))
             len == UlebValue(SubSeq(bytes, 2, n + 1))
         IN  Reading(SubSeq(bytes, n + 2, n + 1 + len), Drop(bytes, n + 1 + len))

read_field(bytes, type) == CASE type = "string" -> read_string(bytes)
                             [] type \in {"f32", "f64"} -> Reading(SubSeq(bytes, 1, Width[type]), Drop(bytes, Width[type]))
                             [] OTHER -> read_int(bytes, type)
write_field(val, type) == CASE type = "string" -> write_string(val)
                            [] type \in {"f32", "f64"} -> val
                            [] OTHER -> WriteInt(val, Width[type])

\* After `reading` come fields of these types.
OneMore(reading, type) ==
    LET next == read_field(reading.rest, type) IN Reading(Append(reading.val, next.val), next.rest)
ReadOn(reading, types) ==
    LET read[k \in 0..Len(types)] == IF k = 0 THEN reading ELSE OneMore(read[k - 1], types[k])
    IN  read[Len(types)]
Read(types, bytes) == ReadOn(Reading(<<>>, bytes), types)
Write(types, vals) == FlattenSeq([k \in DOMAIN types |-> write_field(vals[k], types[k])])
Times(n, type) == [k \in 1..n |-> type]

read_i32_list_i16l(bytes) == LET length == Read(<<"u16">>, bytes) IN ReadOn(length, Times(length.val[1], "u32"))
write_i32_list(l) == WriteInt(Len(l), 2) \o Write(Times(Len(l), "u32"), l)

-----------------------------------------------------------------------------
(* Messages, matches and score frames.                                      *)

MessageTypes == <<"string", "string", "string", "i32">>

\* SlotStatus.has_player, as it is spelt out when a match is written, and when
\* it is read.  Mutant: a player who is not ready is overlooked.
HasPlayer(status) == (status \div 4) % 32 # 0
ReadsId_Ready(status) == (status \div 8) % 16 # 0
ReadsId(status) == (status \div 4) % 32 # 0

\* One thing of every slot, and what there is for those with a player.
Statuses(m) == [k \in 1..Slots |-> m.slots[k].status]
Teams(m) == [k \in 1..Slots |-> m.slots[k].team]
SlotMods(m) == [k \in 1..Slots |-> m.slots[k].mods]
OfPlayers(m, of) == FlattenSeq([k \in 1..Slots |-> IF HasPlayer(m.slots[k].status) THEN of[k] ELSE <<>>])

\* A password that is not shown is an empty string that exists.
write_match(m, send_pw) ==
    Write(<<"u16", "i8", "i8", "u32", "string">>, <<m.id, m.in_progress, 0, m.mods, m.name>>)
    \o (IF m.passwd # <<>> /\ ~send_pw THEN <<11, 0>> ELSE write_string(m.passwd))
    \o Write(<<"string", "i32", "string">>, <<m.map_name, m.map_id, m.map_md5>>)
    \o Write(Times(Slots, "u8"), Statuses(m)) \o Write(Times(Slots, "u8"), Teams(m))
    \o OfPlayers(m, [k \in 1..Slots |-> WriteInt(m.slots[k].player, 4)])
    \o Write(<<"u32", "u8", "u8", "u8", "u8">>, <<m.host, m.mode, m.win_condition, m.team_type, m.freemods>>)
    \o (IF m.freemods = 1 THEN Write(Times(Slots, "u32"), SlotMods(m)) ELSE <<>>)
    \o WriteInt(m.seed, 4)

\* How many ids there are depends on the statuses, and whether there are the
\* slots' mods on the field before them, freemods.
SlotIds(val) == FlattenSeq([k \in 1..Slots |-> IF ReadsId(val[9 + k]) THEN <<"i32">> ELSE <<>>])
read_match(bytes) ==
    LET head   == Read(<<"i16", "i8", "i8", "i32", "string", "string", "string", "i32", "string">>
                       \o Times(Slots, "i8") \o Times(Slots, "i8"), bytes)
        middle == ReadOn(head, SlotIds(head.val) \o <<"i32">> \o Times(4, "i8"))
        mods   == ReadOn(middle, IF Last(middle.val) = 1 THEN Times(Slots, "i32") ELSE <<>>)
    IN  ReadOn(mods, <<"i32">>)

\* What a reader is to have of a match.
Shown(m, send_pw) ==
    <<m.id, m.in_progress, 0, m.mods, m.name, IF send_pw THEN m.passwd ELSE <<>>, m.map_name, m.map_id, m.map_md5>>
    \o Statuses(m) \o Teams(m) \o OfPlayers(m, [k \in 1..Slots |-> <<m.slots[k].player>>])
    \o <<m.host, m.mode, m.win_condition, m.team_type, m.freemods>>
    \o (IF m.freemods = 1 THEN SlotMods(m) ELSE <<>>) \o <<m.seed>>

\* SCOREFRAME_FMT: the time, the id, six counts, the score, two combos,
\* perfect, hp, tag, score_v2; and two portions with score_v2.
FrameTypes == <<"i32", "u8">> \o Times(6, "u16") \o <<"i32", "u16", "u16", "u8", "u8", "u8", "u8">>
Portions(score_v2) == IF score_v2 # 0 THEN <<"f64", "f64">> ELSE <<>>
read_scoreframe(bytes) == LET frame == Read(FrameTypes, bytes) IN ReadOn(frame, Portions(Last(frame.val)))
\* External: clients write the portions, which write_scoreframe (unused) does not.
WholeFrame(s) == FrameTypes \o Portions(s[Len(FrameTypes)])
WriteFrame(s) == Write(WholeFrame(s), s)

\* A bundle: some number, how many frames of a replay there are, the frames
\* (buttons, a byte, a place, and the time), an action, a score frame, and
\* another number.
Replay(n) == FlattenSeq(Times(n, <<"u8", "u8", "f32", "f32", "i32">>))
read_replayframe_bundle(bytes) ==
    LET count  == Read(<<"i32", "u16">>, bytes)
        frames == ReadOn(count, Replay(count.val[2]) \o <<"u8">> \o FrameTypes)
    IN  ReadOn(ReadOn(frames, Portions(Last(frames.val))), <<"u16">>)
WholeBundle(b) == LET types == <<"i32", "u16">> \o Replay(b[2]) \o <<"u8">> \o FrameTypes
                  IN  types \o Portions(b[Len(types)]) \o <<"u16">>
WriteBundle(b) == Write(WholeBundle(b), b)

-----------------------------------------------------------------------------
(* Packets.                                                                 *)

Id == [CHANGE_ACTION |-> 0, SEND_PUBLIC_MESSAGE |-> 1, REQUEST_STATUS_UPDATE |-> 3, PING |-> 4,
       SPECTATE_FRAMES |-> 18, ERROR_REPORT |-> 20, JOIN_MATCH |-> 32, MATCH_CHANGE_SETTINGS |-> 41,
       MATCH_SCORE_UPDATE |-> 47, CHANNEL_JOIN |-> 63, USER_STATS_REQUEST |-> 85]
Kind(id) == CHOOSE kind \in DOMAIN Id : Id[kind] = id

\* packets["all"] and packets["restricted"]; nobody handles ERROR_REPORT.
packet_map == IF restricted THEN {"CHANGE_ACTION", "REQUEST_STATUS_UPDATE", "PING", "CHANNEL_JOIN", "USER_STATS_REQUEST"}
              ELSE DOMAIN Id \ {"ERROR_REPORT"}

\* What the handlers read that read plain fields.
Layout == [CHANGE_ACTION |-> <<"u8", "string", "string", "u32", "u8", "i32">>,
           SEND_PUBLIC_MESSAGE |-> MessageTypes, REQUEST_STATUS_UPDATE |-> <<>>, PING |-> <<>>,
           ERROR_REPORT |-> <<"string">>, JOIN_MATCH |-> <<"i32", "string">>, CHANNEL_JOIN |-> <<"string">>]

write(packid, data) == WriteInt(packid, 2) \o <<0>> \o WriteInt(Len(data), 4) \o data

\* External: a client writes what the handlers read.
ClientData(p) == CASE p.kind = "MATCH_CHANGE_SETTINGS" -> write_match(p.args, TRUE)
                   [] p.kind = "MATCH_SCORE_UPDATE" -> WriteFrame(p.args)
                   [] p.kind = "SPECTATE_FRAMES" -> WriteBundle(p.args)
                   [] p.kind = "USER_STATS_REQUEST" -> write_i32_list(p.args)
                   [] OTHER -> Write(Layout[p.kind], p.args)
ClientBytes(packets) == FlattenSeq([k \in DOMAIN packets |-> write(Id[packets[k].kind], ClientData(packets[k]))])

\* What a handler's __init__ reads; raw data go by the length.
HandlerReads(kind, len, bytes) ==
    CASE kind = "MATCH_CHANGE_SETTINGS" -> read_match(bytes)
      [] kind = "MATCH_SCORE_UPDATE" -> Reading(SubSeq(bytes, 1, len), Drop(bytes, len))
      [] kind = "SPECTATE_FRAMES" -> read_replayframe_bundle(bytes)
      [] kind = "USER_STATS_REQUEST" -> read_i32_list_i16l(bytes)
      [] OTHER -> Read(Layout[kind], bytes)

\* ... and what it is of the packet that was sent.
Meant(p) == CASE p.kind = "MATCH_CHANGE_SETTINGS" -> Shown(p.args, TRUE)
              [] p.kind = "MATCH_SCORE_UPDATE" -> WriteFrame(p.args)
              [] p.kind = "USER_STATS_REQUEST" -> <<Len(p.args)>> \o p.args
              [] OTHER -> p.args

-----------------------------------------------------------------------------
(* What the handlers write.                                                 *)

UserStatsTypes == <<"i32", "u8", "string", "string", "i32", "u8", "i32", "i64", "f32", "i32", "i64", "i32", "i16">>
\* pp over 0x7FFF goes where ranked score is.
user_stats(s) ==
    LET pp     == IF s.pp > 32767 THEN 0 ELSE s.pp
        rscore == IF s.pp > 32767 THEN s.pp ELSE s.rscore
    IN  write(11, Write(UserStatsTypes, <<1, 0, <<>>, <<>>, 0, 0, 0, rscore, <<0, 0, 0, 0>>, 0, 0, 0, pp>>))

\* The frame as it is, with the slot where the id was: byte 11 of the packet.
score_update(data) == LET packet == write(48, data) IN [packet EXCEPT ![12] = MySlot]

\* The match as those in it see it, and as the lobby does.
Matches == {p.args : p \in {q \in Sent : q.kind = "MATCH_CHANGE_SETTINGS"}}
enqueue_state(m) == <<write(26, write_match(m, TRUE)), write(26, write_match(m, FALSE))>>

\* What is enqueued, for whomever.  Whose stats and which match it is about the
\* packet does not say.
Enqueued(kind, val, raw) ==
    CASE kind = "REQUEST_STATUS_UPDATE" -> {<<user_stats(s)>> : s \in Stats}
      [] kind = "MATCH_CHANGE_SETTINGS" -> {enqueue_state(m) : m \in Matches}
      [] kind = "MATCH_SCORE_UPDATE" -> {<<score_update(val)>>}
      [] kind = "SPECTATE_FRAMES" -> {<<write(15, raw)>>}
      [] OTHER -> {<<>>}

\* Every value has room in its field, and all data in the length of a packet: a
\* match's in those that are read, which are signed.
Fits(val, type) == CASE type = "string" -> val \in Seq(Byte)
                     [] type \in {"f32", "f64"} -> val \in [1..Width[type] -> Byte]
                     [] OTHER -> val \in Int /\ Shifted(val, Width[type] - 1) \in (IF type \in SignedTypes THEN -128..127 ELSE Byte)
AllFit(vals, types) == vals = [k \in DOMAIN types |-> vals[k]] /\ \A k \in DOMAIN types : Fits(vals[k], types[k])
MatchFits(m) ==
    /\ AllFit(<<m.id, m.in_progress, m.mods, m.name, m.passwd, m.map_name, m.map_id, m.map_md5>>,
              <<"i16", "i8", "i32", "string", "string", "string", "i32", "string">>)
    /\ \A k \in 1..Slots : AllFit(<<m.slots[k].status, m.slots[k].team, m.slots[k].player, m.slots[k].mods>>,
                                  <<"i8", "i8", "i32", "i32">>)
    /\ AllFit(<<m.host, m.mode, m.win_condition, m.team_type, m.freemods, m.seed>>, <<"i32", "i8", "i8", "i8", "i8", "i32">>)
ArgsFit(p) == CASE p.kind = "MATCH_CHANGE_SETTINGS" -> MatchFits(p.args)
                [] p.kind = "MATCH_SCORE_UPDATE" -> AllFit(p.args, WholeFrame(p.args))
                [] p.kind = "SPECTATE_FRAMES" -> p.args[2] \in Nat /\ AllFit(p.args, WholeBundle(p.args))
                [] p.kind = "USER_STATS_REQUEST" -> Fits(Len(p.args), "u16") /\ AllFit(p.args, Times(Len(p.args), "u32"))
                [] OTHER -> AllFit(p.args, Layout[p.kind])
PacketsConstants ==
    /\ Slots \in Nat /\ MySlot \in Byte
    /\ \A p \in Sent : p = [kind |-> p.kind, args |-> p.args] /\ p.kind \in DOMAIN Id /\ ArgsFit(p)
    /\ \A p \in Sent : Fits(Len(ClientData(p)), "u32")
    /\ \A m \in Matches : Fits(Len(write_match(m, FALSE)), "u32")
    /\ \A s \in Stats : s.pp \in Nat /\ Fits(s.pp, "i64") /\ Fits(s.rscore, "i64")

ASSUME WireAssumption == PacketsConstants

-----------------------------------------------------------------------------
(* Requests.                                                                *)

\* External: the client collects packets.
Sends(p) ==
    /\ ~posted /\ Len(sent) < MaxSent
    /\ sent' = Append(sent, p)
    /\ UNCHANGED <<restricted, body, posted, handled, out>>

bancho_handler ==
    /\ ~posted /\ sent # <<>>
    /\ posted' = TRUE /\ body' = ClientBytes(sent)
    /\ restricted' \in BOOLEAN
    /\ UNCHANGED <<sent, handled, out>>

Header == [kind |-> Kind(ReadInt(SubSeq(body, 1, 2), FALSE)), len |-> ReadInt(SubSeq(body, 4, 7), FALSE)]
AfterHeader == Drop(body, 7)

\* A packet without a handler.
Skips ==
    /\ posted /\ body # <<>> /\ Header.kind \notin packet_map
    /\ body' = Drop(AfterHeader, Header.len)
    /\ UNCHANGED <<restricted, sent, posted, handled, out>>

\* The data are read, then the packet is handled.
Handles ==
    /\ posted /\ body # <<>> /\ Header.kind \in packet_map
    /\ LET read == HandlerReads(Header.kind, Header.len, AfterHeader)
       IN  /\ body' = read.rest
           /\ handled' = Append(handled, [kind |-> Header.kind, val |-> read.val])
           /\ out' \in Enqueued(Header.kind, read.val, SubSeq(AfterHeader, 1, Header.len))
    /\ UNCHANGED <<restricted, sent, posted>>

\* The response has been given, and the client makes the next request.
Responds ==
    /\ posted /\ body = <<>>
    /\ posted' = FALSE /\ sent' = <<>> /\ handled' = <<>> /\ out' = <<>> /\ restricted' = FALSE
    /\ UNCHANGED body

PacketsInit ==
    /\ restricted = FALSE /\ posted = FALSE
    /\ sent = <<>> /\ body = <<>> /\ handled = <<>> /\ out = <<>>

PacketsNext == (\E p \in Sent : Sends(p)) \/ bancho_handler \/ Skips \/ Handles \/ Responds

PacketsSpec == PacketsInit /\ [][PacketsNext]_wvars

-----------------------------------------------------------------------------
(* Properties.                                                              *)

\* Whatever packets share a request, the reader stands at the beginning of one
\* of them, and those before it have been handled in order, if anybody handles
\* them, with what the client meant: a field of the wrong width, or a match with
\* an id too many, shifts all that follows (packets.py:294-551).
ReadsWhatIsMeant == posted => \E n \in 0..Len(sent) :
    /\ body = ClientBytes(Drop(sent, n))
    /\ handled = FlattenSeq([k \in 1..n |-> IF sent[k].kind \in packet_map
                                             THEN <<[kind |-> sent[k].kind, val |-> Meant(sent[k])]>> ELSE <<>>])

\* What the server passes on or writes is read as what it is about: frames are
\* those of the sender, in a match under the sender's slot, pp fit their sixteen
\* bits, and the lobby sees a match without its password (packets.py:627, 820,
\* cho.py:966, 1548).
Data(packet) == Drop(packet, 7)
TellsWhatIsMeant == out # <<>> =>
    /\ \A packet \in ToSet(out) : ReadInt(SubSeq(packet, 4, 7), FALSE) = Len(Data(packet))
    /\ LET kind == Last(handled).kind
           said(args) == \E p \in ToSet(sent) : p.kind = kind /\ p.args = args
       IN  CASE kind = "REQUEST_STATUS_UPDATE" ->
                  LET shown == Read(UserStatsTypes, Data(out[1])).val
                  IN  \E s \in Stats : IF s.pp < 2^15 THEN shown[8] = s.rscore /\ shown[13] = s.pp
                                        ELSE shown[8] = s.pp /\ shown[13] = 0
             [] kind = "MATCH_CHANGE_SETTINGS" -> \E m \in Matches :
                  /\ read_match(Data(out[1])).val = Shown(m, TRUE)
                  /\ read_match(Data(out[2])).val = Shown(m, FALSE)
             [] kind = "MATCH_SCORE_UPDATE" ->
                  LET frame == read_scoreframe(Data(out[1])).val
                  IN  frame[2] = MySlot /\ \E id \in 0..255 : said([frame EXCEPT ![2] = id])
             [] kind = "SPECTATE_FRAMES" -> said(read_replayframe_bundle(Data(out[1])).val)

=============================================================================
