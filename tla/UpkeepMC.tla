------------------------------ MODULE UpkeepMC ------------------------------
(* Who acts in a behaviour: one pass or two, that clear users, delete logs *)
(* or take lists.                                                          *)
EXTENDS Upkeep

CONSTANTS i1, i2, c1, c2, q1, q2, ann, bob, home, work

OwnerOf == [p \in Profile |-> IF p = home THEN ann ELSE bob]
Nobody == [isolates |-> {i1, i2}, passes |-> {c1}, visits |-> {}, rows |-> {}, plain |-> {},
           delay |-> Delay, turn |-> FALSE, due |-> 0, logs |-> 0, stale |-> 0, faults |-> 0]
Rosters == {
    [Nobody EXCEPT !.passes = {c1, c2}],
    [Nobody EXCEPT !.faults = 2],
    [Nobody EXCEPT !.isolates = {i1}, !.rows = {home, work}, !.logs = 2, !.faults = 1],
    [Nobody EXCEPT !.isolates = {i1}, !.rows = {home}, !.due = 3, !.logs = 1],
    [Nobody EXCEPT !.isolates = {i1}, !.passes = {c1, c2}, !.rows = {home}, !.due = 3, !.delay = 0],
    [Nobody EXCEPT !.visits = {q1}, !.rows = {home}, !.plain = {ann}],
    [Nobody EXCEPT !.isolates = {i1}, !.visits = {q1}, !.rows = {home}, !.plain = {ann},
                   !.faults = 1, !.delay = 0],
    [Nobody EXCEPT !.isolates = {i1}, !.turn = TRUE, !.stale = 2, !.faults = 1],
    [Nobody EXCEPT !.isolates = {i1}, !.passes = {c1, c2}, !.turn = TRUE, !.stale = 1, !.delay = 0]}
=============================================================================
