-------------------------------- MODULE Kcp --------------------------------
(***************************************************************************)
(* KCP (ikcp.c), the protocol between the battle gateway and a client over *)
(* UDP: fragments with serial numbers, acknowledgements, a receive window, *)
(* probes of a window that was closed, retransmission.                     *)
(*                                                                         *)
(* A datagram carries one segment; what several segments in one datagram   *)
(* change is only when a segment is sent again, and that is left open:     *)
(* a flush may send any segment again that is not acknowledged.  cwnd is   *)
(* not used (the gateway calls nodelay with nc = 1), and serial numbers    *)
(* stay below 2^31 in the minutes a battle lasts.  A message of FragLimit  *)
(* fragments or more is refused by ikcp_send and is none of Sizes; the     *)
(* buffer for ikcp_recv, of 4 MB, holds all that are shorter, so that -3   *)
(* is never returned.                                                      *)
(***************************************************************************)
EXTENDS Integers, Sequences, FiniteSets, SequencesExt

CONSTANTS Peers, Other,
          FragLimit,       \* IKCP_WND_RCV: a message has fewer fragments
          SndWnd, RcvWnd,  \* snd_wnd and rcv_wnd
          Sizes,           \* bound: the messages a peer sends, each as a number of fragments
          MaxNet           \* bound: the segments on their way to a peer

ASSUME KcpAssumption ==
    /\ \A p \in Peers : Other[p] \in Peers /\ Other[Other[p]] = p
    /\ FragLimit \in Nat \ {0, 1} /\ SndWnd \in Nat \ {0}
    /\ RcvWnd \in Nat /\ RcvWnd >= FragLimit      \* ikcp_wndsize sees to it
    /\ Sizes \in [Peers -> Seq(Nat \ {0})] /\ MaxNet \in [Peers -> Nat]

VARIABLES
    snd_queue,     \* fragments no serial number was given to
    snd_buf,       \* segments sent and not acknowledged, a list by serial number
    snd_una, snd_nxt,
    rmt_wnd,       \* the window the other side has told of
    rcv_buf,       \* segments received that do not fit yet
    rcv_queue,     \* fragments in order, for the application
    rcv_nxt,
    acklist,       \* serial numbers to acknowledge
    tell,          \* probe & IKCP_ASK_TELL
    probing,       \* probe_wait # 0
    net,           \* net[p]: segments on their way to p
    sent, got      \* history: the messages sent and received, as sequences of fragments

sndVars == <<snd_queue, snd_buf, snd_una, snd_nxt, rmt_wnd, probing>>
rcvVars == <<rcv_buf, rcv_queue, rcv_nxt, acklist, tell>>
kcpVars == <<sndVars, rcvVars, net, sent, got>>

KcpInit ==
    /\ snd_queue = [p \in Peers |-> <<>>]
    /\ snd_buf = [p \in Peers |-> {}]
    /\ snd_una = [p \in Peers |-> 0] /\ snd_nxt = snd_una
    /\ rmt_wnd = [p \in Peers |-> FragLimit]
    /\ rcv_buf = [p \in Peers |-> {}]
    /\ rcv_queue = [p \in Peers |-> <<>>]
    /\ rcv_nxt = [p \in Peers |-> 0]
    /\ acklist = [p \in Peers |-> {}]
    /\ tell = [p \in Peers |-> FALSE] /\ probing = tell
    /\ net = [p \in Peers |-> <<>>]
    /\ sent = [p \in Peers |-> <<>>] /\ got = sent

\* A fragment: what it carries (here, its number among all that p sends), and how many
\* fragments of its message follow it.
Fragment(data, frg) == [data |-> data, frg |-> frg]
Numbered(f, sn) == [sn |-> sn, data |-> f.data, frg |-> f.frg]

-----------------------------------------------------------------------------
\* ikcp_send: the next message, of n fragments.
Send(p) ==
    LET n == Sizes[p][Len(sent[p]) + 1]
        first == Len(snd_queue[p]) + snd_nxt[p]
        frags == [i \in 1..n |-> Fragment(first + i - 1, n - i)]
    IN /\ Len(sent[p]) < Len(Sizes[p])
       /\ n < FragLimit
       /\ snd_queue' = [snd_queue EXCEPT ![p] = @ \o frags]
       /\ sent' = [sent EXCEPT ![p] = Append(@, [i \in 1..n |-> frags[i].data])]
       /\ UNCHANGED <<snd_buf, snd_una, snd_nxt, rmt_wnd, probing, rcvVars, net, got>>

\* How many segments of buf, from serial number next on, fit behind len others: the loop
\* "move available data from rcv_buf -> rcv_queue".
Movable(buf, next, len) ==
    LET Fits(k) == /\ len + k <= RcvWnd
                   /\ \A sn \in next..(next + k - 1) : \E seg \in buf : seg.sn = sn
    IN CHOOSE k \in 0..RcvWnd : Fits(k) /\ ~Fits(k + 1)

\* The segment of buf with that serial number.
At(buf, sn) == CHOOSE seg \in buf : seg.sn = sn

\* rcv_buf, rcv_queue and rcv_nxt of p after the loop, from buf and que.
MoveAvailable(p, buf, que) ==
    LET next == rcv_nxt[p]
        k == Movable(buf, next, Len(que))
        moved == [i \in 1..k |-> LET seg == At(buf, next + i - 1)
                                 IN Fragment(seg.data, seg.frg)]
    IN /\ rcv_buf' = [rcv_buf EXCEPT ![p] = {seg \in buf : seg.sn >= next + k}]
       /\ rcv_queue' = [rcv_queue EXCEPT ![p] = que \o moved]
       /\ rcv_nxt' = [rcv_nxt EXCEPT ![p] = next + k]

\* variant: ikcp_peeksize is content with one fragment less.
RecvEarly(p) ==
    LET que == rcv_queue[p]
        last == {i \in 1..Len(que) : que[i].frg = 0}
        n == IF last = {} THEN Len(que) ELSE Min(last)
    IN /\ que # <<>>
       /\ Len(que) >= que[1].frg
       /\ got' = [got EXCEPT ![p] = Append(@, [i \in 1..n |-> que[i].data])]
       /\ MoveAvailable(p, rcv_buf[p], SubSeq(que, n + 1, Len(que)))
       /\ tell' = [tell EXCEPT ![p] = @ \/ (Len(que) >= RcvWnd /\ Len(rcv_queue'[p]) < RcvWnd)]
       /\ UNCHANGED <<sndVars, acklist, net, sent>>

\* ikcp_recv: the fragments of the first message, when ikcp_peeksize finds them all there.
\* The window that was closed until now is announced.
Recv(p) ==
    LET que == rcv_queue[p]
        n == CHOOSE i \in 1..Len(que) : que[i].frg = 0 /\ \A j \in 1..(i - 1) : que[j].frg # 0
        rest == SubSeq(que, n + 1, Len(que))
    IN /\ que # <<>>
       /\ que[1].frg = 0 \/ Len(que) >= que[1].frg + 1
       /\ got' = [got EXCEPT ![p] = Append(@, [i \in 1..n |-> que[i].data])]
       /\ MoveAvailable(p, rcv_buf[p], rest)
       /\ tell' = [tell EXCEPT ![p] = @ \/ (Len(que) >= RcvWnd /\ Len(rcv_queue'[p]) < RcvWnd)]
       /\ UNCHANGED <<sndVars, acklist, net, sent>>
-----------------------------------------------------------------------------
(* ikcp_input. *)

\* ikcp_parse_una, ikcp_parse_ack and ikcp_shrink_buf: what is acknowledged leaves snd_buf.
\* An ack out of the window is ignored: it names nothing in snd_buf.
Acknowledge(p, seg) ==
    LET buf == {x \in snd_buf[p] : x.sn >= seg.una /\ (seg.cmd = "ACK" => x.sn # seg.sn)}
    IN /\ snd_buf' = [snd_buf EXCEPT ![p] = buf]
       /\ snd_una' = [snd_una EXCEPT ![p] = IF buf = {} THEN snd_nxt[p]
                                                 ELSE Min({x.sn : x \in buf})]

\* IKCP_CMD_PUSH and ikcp_parse_data: a segment below the window's end is acknowledged,
\* again if it was received before, and kept if it is new.
Accept(p, seg) ==
    IF seg.sn < rcv_nxt[p] + RcvWnd
    THEN /\ acklist' = [acklist EXCEPT ![p] = @ \cup {seg.sn}]
         /\ IF seg.sn >= rcv_nxt[p]
            THEN MoveAvailable(p, IF \E x \in rcv_buf[p] : x.sn = seg.sn THEN rcv_buf[p]
                                  ELSE rcv_buf[p] \cup {Numbered(seg, seg.sn)},
                               rcv_queue[p])
            ELSE UNCHANGED <<rcv_buf, rcv_queue, rcv_nxt>>
    ELSE UNCHANGED <<acklist, rcv_buf, rcv_queue, rcv_nxt>>

\* variant: IKCP_CMD_WASK is not answered.
InputNoTell(p, i) ==
    LET seg == net[p][i]
    IN /\ i \in DOMAIN net[p]
       /\ net' = [net EXCEPT ![p] = RemoveAt(@, i)]
       /\ rmt_wnd' = [rmt_wnd EXCEPT ![p] = seg.wnd]
       /\ Acknowledge(p, seg)
       /\ IF seg.cmd = "PUSH" THEN Accept(p, seg)
          ELSE UNCHANGED <<acklist, rcv_buf, rcv_queue, rcv_nxt>>
       /\ UNCHANGED <<snd_queue, snd_nxt, probing, tell, sent, got>>

\* The i-th segment on its way arrives.
Input(p, i) ==
    LET seg == net[p][i]
    IN /\ i \in DOMAIN net[p]
       /\ net' = [net EXCEPT ![p] = RemoveAt(@, i)]
       /\ rmt_wnd' = [rmt_wnd EXCEPT ![p] = seg.wnd]
       /\ Acknowledge(p, seg)
       /\ IF seg.cmd = "PUSH" THEN Accept(p, seg)
          ELSE UNCHANGED <<acklist, rcv_buf, rcv_queue, rcv_nxt>>
       /\ tell' = [tell EXCEPT ![p] = @ \/ seg.cmd = "WASK"]
       /\ UNCHANGED <<snd_queue, snd_nxt, probing, sent, got>>
-----------------------------------------------------------------------------
(* ikcp_flush. *)

wnd_unused(p) == IF Len(rcv_queue[p]) < RcvWnd THEN RcvWnd - Len(rcv_queue[p]) ELSE 0

\* A segment as p sends it: with its window and what it expects next.
Segment(p, cmd, sn, f) == [cmd |-> cmd, sn |-> sn, data |-> f.data, frg |-> f.frg,
                           wnd |-> wnd_unused(p), una |-> rcv_nxt[p]]
Empty == Fragment(0, 0)

\* How many fragments move from snd_queue to snd_buf: as many as the windows admit.
Admitted(p) ==
    LET room == snd_una[p] + Min({SndWnd, rmt_wnd[p]}) - snd_nxt[p]
    IN IF room <= 0 THEN 0 ELSE Min({room, Len(snd_queue[p])})

NewSegments(p) == {Numbered(snd_queue[p][i], snd_nxt[p] + i - 1) : i \in 1..Admitted(p)}

\* What a flush sends: acknowledgements, a probe if it is due, the window if it was asked
\* for, the segments that are new, and those whose time-out or fastack has come.
Output(p, due, again) ==
    {Segment(p, "ACK", sn, Empty) : sn \in acklist[p]}
    \cup (IF due THEN {Segment(p, "WASK", 0, Empty)} ELSE {})
    \cup (IF tell[p] THEN {Segment(p, "WINS", 0, Empty)} ELSE {})
    \cup {Segment(p, "PUSH", x.sn, x) : x \in NewSegments(p) \cup again}

\* The network loses any of them, or all.
Flush(p, due, again, kept) ==
    /\ due => rmt_wnd[p] = 0 /\ probing[p]
    /\ again \subseteq snd_buf[p]
    /\ kept \subseteq Output(p, due, again)
    /\ Len(net[Other[p]]) + Cardinality(kept) <= MaxNet[Other[p]]
    /\ acklist' = [acklist EXCEPT ![p] = {}]
    /\ probing' = [probing EXCEPT ![p] = rmt_wnd[p] = 0]
    /\ tell' = [tell EXCEPT ![p] = FALSE]
    /\ snd_queue' = [snd_queue EXCEPT ![p] = SubSeq(@, Admitted(p) + 1, Len(@))]
    /\ snd_buf' = [snd_buf EXCEPT ![p] = @ \cup NewSegments(p)]
    /\ snd_nxt' = [snd_nxt EXCEPT ![p] = @ + Admitted(p)]
    /\ net' = [net EXCEPT ![Other[p]] = @ \o SetToSeq(kept)]
    /\ UNCHANGED <<snd_una, rmt_wnd, rcv_buf, rcv_queue, rcv_nxt, sent, got>>
-----------------------------------------------------------------------------
InputAny(p) == \E i \in 1..MaxNet[p] : Input(p, i)
FlushAny(p) == \E due \in BOOLEAN, again \in SUBSET snd_buf[p] :
                   \E kept \in SUBSET Output(p, due, again) : Flush(p, due, again, kept)

KcpNext == \E p \in Peers : Send(p) \/ Recv(p) \/ InputAny(p) \/ FlushAny(p)

KcpSpec == KcpInit /\ [][KcpNext]_kcpVars

\* A flush of which one segment arrives: of the sending side the oldest segment or, while
\* the window is closed, the probe, once the first flush has set its time; of the receiving
\* side any.
DataArrives(p) ==
    LET again == snd_buf[p]
    IN IF rmt_wnd[p] > 0
       THEN \E seg \in Output(p, FALSE, again) : /\ seg.cmd = "PUSH" /\ seg.sn = snd_una[p]
                                                 /\ Flush(p, FALSE, again, {seg})
       ELSE IF probing[p] THEN Flush(p, TRUE, again, {Segment(p, "WASK", 0, Empty)})
       ELSE Flush(p, FALSE, {}, {})

AckArrives(p) ==
    \E seg \in Output(p, FALSE, {}) :
        seg.cmd \in {"ACK", "WINS"} /\ Flush(p, FALSE, {}, {seg})

\* The application reads, the clock goes on, and the network is fair: what is sent again
\* and again arrives at last, and what is on its way arrives.
KcpFairSpec ==
    /\ KcpSpec
    /\ \A p \in Peers : /\ WF_kcpVars(Recv(p)) /\ WF_kcpVars(Input(p, 1))
                        /\ SF_kcpVars(DataArrives(p)) /\ SF_kcpVars(AckArrives(p))
-----------------------------------------------------------------------------
(* Correctness. *)

\* A message, as the fragments that carry it.
Message == LET Data == UNION {0..((FragLimit - 1) * Len(Sizes[p])) : p \in Peers}
           IN UNION {[1..n -> Data] : n \in 1..(FragLimit - 1)}
S == INSTANCE Stream WITH Messages <- Message

\* Segments are lost, sent again and reordered: the application receives the messages whole, in order and once.
ImplementsStream == S!Spec

\* What is sent is received at last, also when the window was closed on the way.
AllReceived ==
    \A p \in Peers : \A n \in 1..Len(Sizes[p]) :
        Len(sent[p]) = n ~> Len(got[Other[p]]) >= n
=============================================================================
