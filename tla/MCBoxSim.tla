------------------------------ MODULE MCBoxSim ------------------------------
(* Command lines for model-checking BoxSim.                                *)
EXTENDS SimInvariant

Cfg(at, mode, every, dup, drop, epoch) ==
    [claim_at |-> at, claim_mode |-> mode, claim_every |-> every,
     emit_dup_count |-> dup, drop_incoming_every |-> drop, owner_epoch |-> epoch]

\* Explicit iterations (which override the mode), once, periodic and off.
Schedules == {<<{1, 4}, "off", 1>>, <<{}, "once", 2>>, <<{}, "periodic", 2>>, <<{}, "off", 1>>}

CommandLines(epochs) ==
    {Cfg(s[1], s[2], s[3], dup, drop, e) :
        s \in Schedules, dup \in {0, 2}, drop \in {0, 2}, e \in epochs}

AllCommandLines == [b \in Boxes |-> CommandLines(IF b = 0 THEN {1} ELSE {1, 2})]

\* Box 1 claims once and repeats the claim; nothing is dropped.
RepeatingBox1 ==
    [b \in Boxes |-> {Cfg({}, IF b = 0 THEN "off" ELSE "once", 1, dup, 0, 1) : dup \in 1 .. 2}]
=============================================================================
