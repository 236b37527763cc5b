--------------------------- MODULE MCSharedPages ---------------------------
(***************************************************************************)
(* Shared pages for TLC.  The specification treats all frames alike: apart *)
(* from the order of the free list, which is part of the state, it never   *)
(* compares two frames except for equality.  States that differ in the     *)
(* names of the frames only therefore behave alike, and TLC is given a     *)
(* view of the state in which a frame is named by a place of its use.  The *)
(* step that halts changes nothing else, and the halted states are one.    *)
(***************************************************************************)
EXTENDS SharedPages

Listed(S) == FoldSet(LAMBDA x, list : Append(list, x), <<>>, S)

Pids == Listed(Pid)

Entries(f) ==
  LET order == Listed(DOMAIN tables[f])
  IN  [i \in DOMAIN order |-> tables[f][order[i]]]

UsesOf(p) ==
  IF p \notin Live THEN <<>>
  ELSE LET m == mem[p]
           level0 == [i \in DOMAIN m.nodes |-> m.nodes[i].table]
       IN  <<m.lvl2, m.lvl1, m.sscratch>> \o level0
             \o FlattenSeq([i \in DOMAIN level0 |-> Entries(level0[i])])

\* Every frame is there, for the sake of one that were used nowhere.
Uses ==
  <<directory>> \o free \o FlattenSeq([i \in DOMAIN Pids |-> UsesOf(Pids[i])])
    \o Listed(PageFrames) \o Listed(lost) \o [f \in Frame |-> f]

View ==
  LET uses == Uses
      Name(f) == IF f = NULL THEN NULL ELSE CHOOSE i \in DOMAIN uses : uses[i] = f
      Table(t) == [i \in DOMAIN t |-> Name(t[i])]
      At(place) == [place EXCEPT !.table = Name(@)]
      Memory(m) ==
        IF m.state # "live" THEN m
        ELSE [m EXCEPT !.lvl2 = Name(@), !.lvl1 = Name(@), !.sscratch = Name(@),
                       !.nodes = [i \in DOMAIN @ |-> [@[i] EXCEPT !.table = Name(@)]]]
  IN  IF halted THEN <<halted>> ELSE
      << Table(free), {<<Name(f), Table(tables[f])>> : f \in DOMAIN tables},
         [p \in Pid |-> Memory(mem[p])], {Name(f) : f \in lost},
         [k \in Key |-> [pages[k] EXCEPT !.frame = Name(@)]],
         [p \in Pid |-> [i \in DOMAIN shared[p] |->
                           [shared[p][i] EXCEPT !.place = At(@)]]],
         [p \in Pid |-> [i \in DOMAIN holes[p] |-> At(holes[p][i])]] >>
=============================================================================
