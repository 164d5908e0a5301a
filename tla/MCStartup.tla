----------------------------- MODULE MCStartup -----------------------------
(***************************************************************************)
(* Values for model checking Startup: three processes with small versions  *)
(* of the configurations of test/, right and wrong, and a card with few    *)
(* queues beside a better one.                                             *)
(***************************************************************************)
EXTENDS Startup

Conf(process, dispatch, other, me) ==
    [single |-> FALSE, process |-> process, dispatch |-> dispatch, other |-> other,
     me |-> {me}, loop |-> TRUE, pcis |-> {"card"}]

\* Every card there is.
AllCards(c) == [p \in DOMAIN c |-> [c[p] EXCEPT !.pcis = {}]]

P(i) == <<"process", i>>
D(i) == <<"dispatch", i>>

\* app0, app1 and distr0: every process lists all cores.
DispatchTest == AllCards(
    [p0 |-> Conf(<<5, 6>>, <<7>>, <<>>, P(0)),
     p1 |-> Conf(<<5, 6>>, <<7>>, <<>>, P(1)),
     p2 |-> Conf(<<5, 6>>, <<7>>, <<>>, D(0))])

\* Mixed cores, an other core, and an entry behind a disabled one.
MixTest ==
    [p0 |-> Conf(<<5, 6, Disabled, 8>>, <<>>, <<9>>, P(0)),
     p1 |-> Conf(<<5, 6, Disabled, 8>>, <<>>, <<9>>, P(1)),
     p2 |-> Conf(<<5, 6, Disabled, 8>>, <<>>, <<9>>, <<"other", 0>>)]

\* One core listed twice.
Twice ==
    [p0 |-> Conf(<<5, 5>>, <<>>, <<>>, P(0)),
     p1 |-> Conf(<<5, 5>>, <<>>, <<>>, P(1)),
     p2 |-> Conf(<<5>>, <<>>, <<>>, P(0))]

\* Configurations that do not agree, name a core behind a disabled entry,
\* or allow no card that exists.
Disagree ==
    [p0 |-> Conf(<<5, 6>>, <<7, 8>>, <<>>, P(0)),
     p1 |-> Conf(<<6, 5>>, <<7>>, <<>>, P(1)),
     p2 |-> Conf(<<5, 6>>, <<Disabled, 8>>, <<>>, D(1))]

\* More process cores than the first card has queues.
ManyCores == AllCards(
    [p0 |-> Conf(<<5, 6, 7>>, <<8>>, <<>>, P(0)),
     p1 |-> Conf(<<5, 6, 7>>, <<8>>, <<>>, P(1)),
     p2 |-> Conf(<<5, 6, 7>>, <<8>>, <<>>, D(0))])

NoCard ==
    [p0 |-> [Conf(<<5>>, <<>>, <<>>, P(0)) EXCEPT !.pcis = {"absent"}],
     p1 |-> Conf(<<5>>, <<>>, <<>>, P(0)),
     p2 |-> Conf(<<>>, <<>>, <<>>, P(0))]

\* All cores in one process, more queues than process cores, and a process
\* that has no loop.
OneProcess ==
    [p0 |-> [Conf(<<5>>, <<7, 8>>, <<>>, P(0)) EXCEPT !.single = TRUE, !.me = {P(0), D(0), D(1)}],
     p1 |-> [Conf(<<5>>, <<7>>, <<>>, P(0)) EXCEPT !.loop = FALSE],
     p2 |-> Conf(<<5, 6>>, <<7>>, <<>>, P(1))]

MCProcesses == {"p0", "p1", "p2"}
MCAnyConfigs == {DispatchTest, MixTest, Twice, Disagree, ManyCores, NoCard, OneProcess}

\* Each secondary alone with the primary.
MCPair == {"p0", "p1"}
MCPairConfigs ==
    {[p0 |-> c.p0, p1 |-> c[p]] : c \in MCAnyConfigs, p \in {"p1", "p2"}}

MCGoodConfigs == {DispatchTest, MixTest}
MCCards == {"card", "better", "absent"}
MCPresent == {"card", "better"}
MCMaxQueues == [c \in MCCards |-> IF c = "better" THEN 8 ELSE 2]
MCClients == {"cli"}
MCNoClients == {}

\* test/mix0.c:33-41 and test/mix1.c:33-44.
MCMixTestProcesses == {"mix0", "mix1"}
MCMixTestConfigs ==
    {[mix0 |-> [Conf(<<2>>, <<>>, <<>>, P(0)) EXCEPT !.pcis = {"0000:03:00.0"}],
      mix1 |-> [Conf(<<35, 36>>, <<>>, <<>>, P(1)) EXCEPT !.pcis = {"0000:01:00.0"}]]}
MCMixTestCards == {"0000:01:00.0", "0000:03:00.0"}
MCMixTestQueues == [c \in MCMixTestCards |-> 8]

(***************************************************************************)
(* README.md:108-115: run test-mix0, wait until it is up, run test-mix1,   *)
(* wait until it is up.  Neither process fails to start.                   *)
(***************************************************************************)
MixTestStarts == \A p \in Processes : pc[p] # "failed"
=============================================================================
