---------------------------- MODULE MCFlvDevice ----------------------------
(***************************************************************************)
(* FlvDevice on a small instance.  Contents are every sequence of at most  *)
(* two units behind start codes with two to four zeros, with or without a  *)
(* zero at the end.  A unit may be empty, begin like a start code ends,   *)
(* and hold two zeros, but it does not hold a start code and does not end  *)
(* with a zero: that is what H.264's emulation prevention is for.          *)
(***************************************************************************)
EXTENDS FlvDevice

Zeros(n) == [i \in 1 .. n |-> 0]
Nals == {<<>>, <<9>>, <<1, 9>>, <<9, 0, 0, 9>>}
Units == [zeros : 2 .. 4, nal : Nals]
Encoded(u) == Zeros(u.zeros) \o <<1>> \o u.nal
\* Unit i lies behind those before it and its own start code.
StartsAt(us, i) == Len(FlattenSeq([j \in 1 .. i - 1 |-> Encoded(us[j])])) + us[i].zeros + 2
NotEmpty(us) == SelectSeq([i \in DOMAIN us |-> i], LAMBDA i : us[i].nal # <<>>)
Content(us, padding) ==
    LET kept == NotEmpty(us) IN
    [units |-> [k \in DOMAIN kept |-> us[kept[k]].nal],
     at |-> [k \in DOMAIN kept |->
                [first |-> StartsAt(us, kept[k]),
                 last |-> StartsAt(us, kept[k]) + Len(us[kept[k]].nal) - 1]],
     bytes |-> FlattenSeq([i \in DOMAIN us |-> Encoded(us[i])]) \o Zeros(padding)]
Contents == {Content(us, p) : us \in {<<u>> : u \in Units} \cup (Units \X Units), p \in 0 .. 1}
Bare == <<9, 0, 9>>

FileContents == Contents \cup {[units |-> <<>>, at |-> <<>>, bytes |-> Bare]}
BufferContents ==
    {Content(<<u, v>>, 1) : u \in [zeros : {3}, nal : Nals \ {<<>>}], v \in [zeros : {2, 4}, nal : Nals]}
\* A buffer may also be one NAL without a start code, or empty.
UnusualContents ==
    {[units |-> <<Bare>>, at |-> <<>>, bytes |-> Bare], [units |-> <<>>, at |-> <<>>, bytes |-> <<>>]}

\* Of all orders of calls, those that come one after the other, by any controller.
\* (Calls that overlap are in the run of FlvSource, source_stale.)
CallInTurn(c) == (StartNext(c) \/ StopNext(c)) /\ OneCaller' /\ UNCHANGED deviceVars
TurnNext == (\E c \in Controllers : CallInTurn(c)) \/ (\E t \in Threads : DeviceNext(t))
TurnSpec ==
    /\ DeviceInit /\ [][TurnNext]_allVars
    /\ \A c \in Controllers : WF_allVars(Finishes(c) /\ UNCHANGED deviceVars)
    /\ \A t \in Threads : WF_allVars(DeviceNext(t))
=============================================================================
