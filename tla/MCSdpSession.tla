---------------------------- MODULE MCSdpSession -----------------------------
(* Two parties that number the same dynamic codecs differently.            *)
EXTENDS SdpSession

Both == {"send", "recv"}
Fmt(pt, codec) == [pt |-> pt, codec |-> codec]
Line(type, fmts) == [type |-> type, active |-> TRUE, dir |-> Both, fmts |-> fmts]

PCMU == Fmt(0, "PCMU")

MCMedia ==
    [C |-> <<Line("audio", <<Fmt(96, "speex"), PCMU, Fmt(97, "opus")>>)>>,
     S |-> <<Line("audio", <<PCMU, Fmt(96, "opus"), Fmt(97, "speex")>>), Line("video", <<Fmt(97, "h264")>>)>>]

\* Other codecs first, and for one party a line that the other has not got.
MCOffers ==
    [C |-> {MCMedia.C, <<Line("audio", <<Fmt(96, "opus")>>)>>},
     S |-> {<<Line("audio", <<Fmt(96, "opus"), Fmt(97, "speex")>>)>>, MCMedia.S}]
===============================================================================
