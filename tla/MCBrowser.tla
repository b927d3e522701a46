------------------------------ MODULE MCBrowser ------------------------------
(***************************************************************************)
(* Scenes for TLC: two tabs log in, out and over each other; one tab has   *)
(* its calls expire, come late or fail; photos are uploaded and published. *)
(***************************************************************************)
EXTENDS Browser

CONSTANTS t1, t2, ann, bob

Scene(tabs, users, acts, calls) ==
  [tabs |-> tabs, users |-> users, acts |-> acts, calls |-> calls]

TabScenes ==
  {Scene({t1, t2}, {ann, bob}, {"logout", "reload"}, 2),
   Scene({t1, t2}, {ann}, {"logout", "reload"}, 3),
   Scene({t1, t2}, {ann}, {"logout", "like"}, 3),
   Scene({t1}, {ann}, {"logout", "reload", "like", "expire"}, 4),
   Scene({t1}, {ann}, {"like"}, 5),
   Scene({t1}, {ann}, {"like", "fault"}, 4),
   Scene({t1}, {ann}, {"photo", "crash"}, 2),
   Scene({t1}, {ann}, {"photo", "fault"}, 2)}

\* Readings of the clock that are even, or odd, end in the same letters.
Parity(t) == t % 2
=============================================================================
