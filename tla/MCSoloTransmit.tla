--------------------------- MODULE MCSoloTransmit ---------------------------
(* Channels for the model checking of SoloTransmit and SoloViews. *)
EXTENDS SoloTransmit, TLC

CONSTANTS u1, u2, u3, server, everyone

Nobody == [t \in StreamType |-> {}]
NoLimit == [t \in AudioType |-> 0]

Solo == [solo |-> TRUE, classroom |-> FALSE, permanent |-> FALSE,
         listed |-> Nobody, delay |-> 1, limit |-> NoLimit]

\* u1 may be denied voice and video; the channel may be open to all at once; and
\* it may be a classroom for everyone where streams are limited.
Ruled == {Solo,
          [Solo EXCEPT !.listed.voice = {u1}, !.listed.video = {u1},
                       !.permanent = TRUE],
          [Solo EXCEPT !.solo = FALSE, !.delay = 0],
          [Solo EXCEPT !.classroom = TRUE, !.limit.voice = 2,
                       !.listed = [t \in StreamType |-> {everyone}]]}
Classroom == {[Solo EXCEPT !.classroom = TRUE, !.listed.voice = {u1, u2}]}
=============================================================================
