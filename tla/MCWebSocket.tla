---- MODULE MCWebSocket ----
\* Small instances of WebSocket for TLC.
EXTENDS WebSocket

\* A frame that breaks no rule but those of its opcode, length and FIN bit.
Frame(opcode, fin, form, size) ==
    [opcode |-> opcode, fin |-> fin, rsv |-> FALSE, masked |-> TRUE,
     form |-> form, size |-> size, code |-> 3000]

\* Fragments, control frames with the most they may carry, and violations of the
\* framing rules, around the limits of the lengths and of their forms.
MCFrames ==
    {Frame(1, TRUE, "ext16", 126), Frame(2, FALSE, "ext16", 65535),
     Frame(1, TRUE, "ext64", 65536), Frame(0, TRUE, "ext64", maxWSFramePayload),
     Frame(9, TRUE, "head", 125), Frame(10, TRUE, "head", 0), Frame(8, TRUE, "head", 2),
     Frame(3, TRUE, "head", 0), Frame(1, TRUE, "ext64", maxWSFramePayload + 1),
     Frame(9, FALSE, "head", 0), Frame(9, TRUE, "ext16", 126),
     [Frame(2, TRUE, "ext16", 126) EXCEPT !.masked = FALSE]}
====
