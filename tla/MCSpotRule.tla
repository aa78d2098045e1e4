----------------------------- MODULE MCSpotRule -----------------------------
(* Instances of SpotRule for TLC.  Frequencies are small integers, one unit *)
(* being half of NEAR_KHZ or more; times count windows or parts of them.    *)
EXTENDS SpotRule

CONSTANTS runner, bust, caller

MCTier == [c \in Calls |-> IF c = bust THEN 3 ELSE 2]
MCOneEdit == {<<runner, bust>>, <<bust, runner>>}

Says(groups, others, signs) ==
  [groups |-> groups, signs |-> signs,
   tokens |-> {groups[i].call : i \in DOMAIN groups} \cup others \cup signs]
Cq(call) == [call |-> call, after |-> None]
After(call, owner) == [call |-> call, after |-> owner]

\* One runner calling CQ.
RunnerTexts == {Says(<<Cq(runner)>>, {}, {})}

\* A runner and his bust, alone and in one window, the bust first.
VoteTexts ==
  {Says(<<Cq(runner)>>, {}, {}), Says(<<Cq(bust)>>, {}, {}),
   Says(<<Cq(bust), Cq(runner)>>, {}, {})}

\* A runner, in one CQ group or two; a caller read as one, alone, beside the
\* owner's call and after his TEST; the caller's sign-off.
LockonTexts ==
  {Says(<<Cq(runner)>>, {}, {}), Says(<<Cq(runner), Cq(runner)>>, {}, {}),
   Says(<<Cq(caller)>>, {}, {}), Says(<<Cq(caller)>>, {runner}, {}),
   Says(<<After(caller, runner)>>, {runner}, {runner}),
   Says(<<>>, {}, {caller})}

\* All of it.
BandTexts == VoteTexts \cup LockonTexts
=============================================================================
