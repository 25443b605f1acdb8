-------------------------------- MODULE SdpNeg --------------------------------
(***************************************************************************)
(* The SDP negotiator (sdp_neg.c) as a record and the functions on it.     *)
(*                                                                         *)
(* A session description is its version and its media lines; a line has a  *)
(* type, a port that is zero or not (active), the directions it may use    *)
(* and its formats in order of preference.  Built as here: the offerer's   *)
(* order of codecs, one codec in an answer, with the offer's payload type. *)
(* Left out: telephone-event, formats that are not numbers, the codecs'    *)
(* own matching functions, and several lines of one type.                  *)
(***************************************************************************)
EXTENDS Integers, Sequences, SequencesExt

CONSTANTS Types,        \* media types, in at most one line each
          DynPts,       \* dynamic payload types
          DynCodecs     \* codecs with a dynamic payload type

ASSUME SdpNegAssumption == DynPts \subseteq 96 .. 127

\* The lowest dynamic payload type.
START_DYNAMIC_PT == 96

NegStates == {"LOCAL_OFFER", "REMOTE_OFFER", "WAIT_NEGO", "DONE"}

NoSdp == [ver |-> 0, media |-> <<>>]
NoCodec == "-"

\* init_mapping: no payload type of no line is in use.
NoMap == [t \in Types |-> [pt \in DynPts |-> NoCodec]]
NoPts == [t \in Types |-> [c \in DynCodecs |-> 0]]

---------------------------------------------------------------------------
\* Lines

\* sdp_media_clone_deactivate
Deactivate(line) == [line EXCEPT !.active = FALSE, !.dir = {"send", "recv"}]

TypesOf(media) == {media[k].type : k \in DOMAIN media}

LineOf(media, type) == media[CHOOSE k \in DOMAIN media : media[k].type = type]

\* At most one line of a type.
OneOfEach(media) == \A i, j \in DOMAIN media : media[i].type = media[j].type => i = j

\* The elements of s that are in S, in their order: SelectSeq as a function that proofs can unfold.
Sublist(s, S) ==
    LET of[n \in 0 .. Len(s)] ==
            IF n = 0 THEN <<>>
            ELSE IF s[n] \in S THEN Append(of[n - 1], s[n]) ELSE of[n - 1]
    IN  of[Len(s)]

\* pjmedia_sdp_session_cmp: of a line without a port only the type counts.
session_cmp(a, b) ==
    /\ a.ver = b.ver
    /\ Len(a.media) = Len(b.media)
    /\ \A k \in DOMAIN a.media :
           LET x == a.media[k]
               y == b.media[k]
           IN  x.type = y.type /\ x.active = y.active /\ (x.active => x = y)

Mirror(dir) == {IF d = "send" THEN "recv" ELSE "send" : d \in dir}

\* Mutant of update_media_direction: a line that the remote only sends is sent to as well.
update_media_direction_not(remote, local) == local

update_media_direction(remote, local) == local \cap Mirror(remote)

\* Static payload types are compared, dynamic ones stand for their codec.
SameFmt(f, g) == IF f.pt < START_DYNAMIC_PT THEN g.pt = f.pt ELSE g.codec = f.codec

\* Where the formats with dynamic numbers are.
Dynamic(fmts) == {k \in DOMAIN fmts : ~(fmts[k].pt < START_DYNAMIC_PT)}

FmtsMatching(fmts, f) == {k \in DOMAIN fmts : SameFmt(f, fmts[k])}

First(S) == CHOOSE k \in S : \A j \in S : k <= j

\* The lines of our offer and of the answer, when kept are the formats they have in common.
Common_m(offer, answer, kept) ==
    IF kept = <<>> THEN <<Deactivate(offer), Deactivate(answer)>>
    ELSE <<[offer EXCEPT !.dir = update_media_direction(answer.dir, @),
                         !.fmts = [k \in DOMAIN kept |-> CHOOSE o \in Range(offer.fmts) : SameFmt(o, kept[k])]],
           [answer EXCEPT !.fmts = kept]>>

\* The line of our offer and that of the answer once both are agreed on.
process_m_answer(offer, answer) ==
    CASE ~answer.active -> <<Deactivate(offer), answer>>
      [] answer.active /\ ~offer.active -> <<offer, answer>>
      [] answer.active /\ offer.active ->
             Common_m(offer, answer, Sublist(answer.fmts,
                 {a \in Range(answer.fmts) : \E o \in Range(offer.fmts) : SameFmt(o, a)}))

\* Lines that the answer has not got are off.
process_answer(offer, answer) ==
    [k \in DOMAIN offer.media |->
        IF k \in DOMAIN answer.media THEN process_m_answer(offer.media[k], answer.media[k])
        ELSE <<Deactivate(offer.media[k]), Deactivate(offer.media[k])>>]

\* Formats of the offer that the line we could answer with has too.
Common(offer, preanswer) == {k \in DOMAIN offer.fmts : FmtsMatching(preanswer.fmts, offer.fmts[k]) # {}}

\* The first of them is the answer; without one create_answer rejects the line.
Answer_m(offer, preanswer, common) ==
    IF common = {} THEN Deactivate(offer)
    ELSE [preanswer EXCEPT !.dir = update_media_direction(offer.dir, @), !.fmts = <<offer.fmts[First(common)]>>]

match_offer(offer, preanswer) ==
    CASE ~offer.active -> Deactivate(offer)
      [] offer.active /\ ~preanswer.active -> preanswer
      [] offer.active /\ preanswer.active -> Answer_m(offer, preanswer, Common(offer, preanswer))

create_answer(initial, offer) ==
    [initial EXCEPT !.media =
        [k \in DOMAIN offer.media |->
            LET om == offer.media[k]
            IN  IF om.type \in TypesOf(initial.media) THEN match_offer(om, LineOf(initial.media, om.type))
                ELSE Deactivate(om)]]

has_active(sdp) == \E k \in DOMAIN sdp.media : sdp.media[k].active

---------------------------------------------------------------------------
\* Payload types

\* The number that was the codec's before, else one never used, else any that is free now.
find_new_pt(to_codec, used, codec) ==
    LET free == DynPts \ used
        own == {pt \in free : to_codec[pt] = codec}
        fresh == {pt \in free : to_codec[pt] = NoCodec}
    IN  First(IF own # {} THEN own ELSE IF fresh # {} THEN fresh ELSE free)

\* Format f gets number pt.
Numbered(acc, f, pt) ==
    [acc EXCEPT !.used = @ \cup {pt}, !.fmts = Append(@, [f EXCEPT !.pt = pt]),
                !.to_codec[pt] = f.codec, !.to_pt[f.codec] = pt]

\* Mutant of assign_pt: a number that stands for another codec is taken over.
assign_pt_over(acc, f, is_offer) == Numbered(acc, f, f.pt)

\* One format: acc holds the maps of its line, the numbers used and the formats so far.
assign_pt(acc, f, is_offer) ==
    LET need_new_pt == acc.to_codec[f.pt] \notin {NoCodec, f.codec} \/ f.pt \in acc.used
        last == acc.to_pt[f.codec]
        usable == last # 0 /\ last \notin acc.used
    IN  Numbered(acc, f, IF usable /\ (need_new_pt \/ is_offer) THEN last
                         ELSE IF need_new_pt THEN find_new_pt(acc.to_codec, acc.used, f.codec)
                         ELSE f.pt)

Static(acc, f) == [acc EXCEPT !.fmts = Append(@, f)]

assign_line(neg, line, is_offer) ==
    LET none == [to_codec |-> neg.to_codec[line.type], to_pt |-> neg.to_pt[line.type], used |-> {}, fmts |-> <<>>]
        after[n \in 0 .. Len(line.fmts)] ==
            IF n = 0 THEN none
            ELSE IF line.fmts[n].pt < START_DYNAMIC_PT THEN Static(after[n - 1], line.fmts[n])
            ELSE assign_pt(after[n - 1], line.fmts[n], is_offer)
    IN  after[Len(line.fmts)]

\* The maps of one kind: the new ones of the lines that are on, none for those that are off.
Maps(old, none, sdp, new) ==
    [t \in Types |-> IF t \in DOMAIN new THEN new[t]
                     ELSE IF t \in TypesOf(sdp.media) THEN none[t] ELSE old[t]]

\* The description with its numbers and the maps after it, from what is done with each line.
Assigned(neg, sdp, done) ==
    [sdp |-> [sdp EXCEPT !.media = [k \in DOMAIN sdp.media |->
                 LET line == sdp.media[k]
                 IN  IF line.active THEN [line EXCEPT !.fmts = done[line.type].fmts] ELSE line]],
     to_codec |-> Maps(neg.to_codec, NoMap, sdp, [t \in DOMAIN done |-> done[t].to_codec]),
     to_pt |-> Maps(neg.to_pt, NoPts, sdp, [t \in DOMAIN done |-> done[t].to_pt])]

assign_pt_and_update_map(neg, sdp, is_offer) ==
    Assigned(neg, sdp, [t \in {u \in TypesOf(sdp.media) : LineOf(sdp.media, u).active} |->
                            assign_line(neg, LineOf(sdp.media, t), is_offer)])

---------------------------------------------------------------------------
\* The negotiator

create_w_local_offer(media) ==
    [state |-> "LOCAL_OFFER", active_local |-> NoSdp, active_remote |-> NoSdp,
     neg_local |-> [ver |-> 1, media |-> media], neg_remote |-> NoSdp,
     last_sent |-> [ver |-> 1, media |-> media], has_remote_answer |-> FALSE,
     to_codec |-> NoMap, to_pt |-> NoPts]

create_w_remote_offer(remote) ==
    [state |-> "REMOTE_OFFER", active_local |-> NoSdp, active_remote |-> NoSdp,
     neg_local |-> NoSdp, neg_remote |-> remote,
     last_sent |-> NoSdp, has_remote_answer |-> FALSE,
     to_codec |-> NoMap, to_pt |-> NoPts]

\* The lines of a new offer: those of the old one in their places, then the others.
OfferLines(old, new) ==
    [k \in DOMAIN old |-> IF old[k].type \in TypesOf(new) THEN LineOf(new, old[k].type) ELSE Deactivate(old[k])]
        \o Sublist(new, {line \in Range(new) : line.type \notin TypesOf(old)})

Bumped(last_sent, sdp) == IF session_cmp(last_sent, sdp) THEN sdp ELSE [sdp EXCEPT !.ver = @ + 1]

OfferOf(neg, offer, fixed) ==
    [neg EXCEPT !.state = "LOCAL_OFFER", !.neg_local = offer, !.last_sent = offer,
                !.to_codec = fixed.to_codec, !.to_pt = fixed.to_pt]

NumberedOffer(neg, fixed) == OfferOf(neg, Bumped(neg.last_sent, fixed.sdp), fixed)

\* pjmedia_sdp_neg_modify_local_offer2, in DONE.
modify_local_offer(neg, media) ==
    NumberedOffer(neg, assign_pt_and_update_map(
        neg, [ver |-> neg.active_local.ver, media |-> OfferLines(neg.active_local.media, media)], TRUE))

set_remote_answer(neg, sdp) ==
    [neg EXCEPT !.state = "WAIT_NEGO", !.has_remote_answer = TRUE, !.neg_remote = sdp]

set_remote_offer(neg, sdp) == [neg EXCEPT !.state = "REMOTE_OFFER", !.neg_remote = sdp]

set_local_answer(neg, media) ==
    [neg EXCEPT !.state = "WAIT_NEGO", !.neg_local = [ver |-> 0, media |-> media]]

Cleared(neg) ==
    [neg EXCEPT !.state = "DONE", !.neg_local = NoSdp, !.neg_remote = NoSdp, !.has_remote_answer = FALSE]

cancel_offer(neg) == Cleared(neg)

\* Our offer and its answer, from the pairs of their lines.
Agreed(neg, pairs) ==
    [Cleared(neg) EXCEPT
        !.active_local = [neg.neg_local EXCEPT !.media = [k \in DOMAIN pairs |-> pairs[k][1]]],
        !.active_remote = [neg.neg_remote EXCEPT !.media = [k \in DOMAIN pairs |-> pairs[k][2]]]]

\* The offer and our answer to it, with its version and its payload types.
AnswerOf(neg, answer, fixed) ==
    [Cleared(neg) EXCEPT !.active_local = answer, !.active_remote = neg.neg_remote, !.last_sent = answer,
                         !.to_codec = fixed.to_codec, !.to_pt = fixed.to_pt]

NumberedAnswer(neg, fixed) ==
    AnswerOf(neg, Bumped(neg.last_sent, [fixed.sdp EXCEPT !.ver = neg.last_sent.ver]), fixed)

Answered(neg) ==
    NumberedAnswer(neg, assign_pt_and_update_map(neg, create_answer(neg.neg_local, neg.neg_remote), FALSE))

\* The negotiation succeeds when a line is on; otherwise what was active stays so.
Concluded(neg, new) ==
    IF has_active(new.active_local) THEN [ok |-> TRUE, neg |-> new] ELSE [ok |-> FALSE, neg |-> Cleared(neg)]

\* pjmedia_sdp_neg_negotiate: its result and the negotiator after it.
negotiate(neg) ==
    Concluded(neg, IF neg.has_remote_answer THEN Agreed(neg, process_answer(neg.neg_local, neg.neg_remote))
                   ELSE Answered(neg))
===============================================================================
