---------------------------- MODULE MCClipDaemon ----------------------------
(* ClipDaemon for TLC: an image and a text from peers, the text with the later *)
(* timestamp, and a concealed text; pngpaste makes j of the image i, and keeps j. *)
EXTENDS ClipDaemon

CONSTANTS a, i, j

FromPeer(n, k, x, ts, hidden) ==
    [id |-> <<"peer", n>>, body |-> [kind |-> k, of |-> x], ts |-> ts, concealed |-> hidden]

MCReencoded == [x \in {i, j} |-> j]

MCInbound == {FromPeer(1, "image", i, 2, FALSE), FromPeer(2, "text", a, 3, FALSE),
              FromPeer(3, "text", a, 4, TRUE)}

=============================================================================
