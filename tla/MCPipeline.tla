------------------------------ MODULE MCPipeline ------------------------------
(***************************************************************************)
(* One run of a session with a task that pins, needs and forbids, packs    *)
(* that clash in ids, a budget that two texts overflow, and results with   *)
(* and without a prohibited call.                                          *)
(***************************************************************************)
EXTENDS HarnessPipeline

MCWords == {"fee", "due", "pay", "law"}

s1  == [id |-> 1, text |-> {"fee", "due"}, needs |-> {"net"}, tools |-> {"pay"}]
s1x == [id |-> 1, text |-> {"law"}, needs |-> {}, tools |-> {}]
s2  == [id |-> 2, text |-> {"law"}, needs |-> {}, tools |-> {"pay"}]
MCSkills == {s1, s1x, s2}

MCPacks ==
    {Metadata("own", {s1}, {}), Metadata("hub", {s1x}, {}), Metadata("local-experience", {}, {s2}),
     Metadata("twice", {s1}, {s1x})}
MCLearned == [id |-> "local-experience", skills |-> {s1x, s2}]

Task(pins, needs, requirements, constraints) ==
    [query |-> {"fee", "law"}, pins |-> pins, needs |-> needs, requirements |-> requirements,
     constraints |-> constraints, criteria |-> {"fee"}, prohibited |-> {"pay"}, tokens |-> NoLimit]

MCTasks ==
    {Task({1}, {"net", "tools"}, {"law", "due"}, {[id |-> 1, text |-> {"pay"}]}),
     Task({3}, {"net"}, {"law"}, {}),
     [Task({}, {}, {}, {}) EXCEPT !.criteria = {"fee", "due"}, !.prohibited = {}, !.tokens = 10]}

netPay == [capabilities |-> {"net"}, tools |-> {"pay"}]
net    == [capabilities |-> {"net"}, tools |-> {}]
pay    == [capabilities |-> {}, tools |-> {"pay"}]
MCGrantSets == {{}, {netPay}, {netPay, net}, {net, pay}}

d1 == [id |-> 1, source |-> {}, text |-> {"fee", "due"}, required |-> FALSE]
d2 == [id |-> 2, source |-> {}, text |-> {"law", "fee"}, required |-> TRUE]
d3 == [id |-> 3, source |-> {"law"}, text |-> {"due"}, required |-> FALSE]
MCDocuments  == {d1, d2, d3}
MCRerankings == {{}, {[d2 EXCEPT !.required = FALSE], [d3 EXCEPT !.required = TRUE]}}

MCRecalled == {<<>>, <<{[id |-> 1, text |-> {"pay"}]}, {[id |-> 1, text |-> {"fee"}]}>>}

MCSuites ==
    {[criteria |-> {"fee"}, evidence |-> {"law"}, expected |-> {"pay"}, prohibited |-> {}, target |-> 10,
      injected |-> TRUE, baseline |-> [output |-> {"fee"}, calls |-> {}, status |-> "partial", tokens |-> 30, fits |-> TRUE]],
     [criteria |-> {"fee", "due"}, evidence |-> {}, expected |-> {}, prohibited |-> {"pay"}, target |-> NoLimit,
      injected |-> FALSE, baseline |-> [output |-> {}, calls |-> {}, status |-> "failed", tokens |-> 0, fits |-> TRUE]]}

MCResults ==
    [status : {"succeeded", "suspended"}, output : {{}, {"fee"}, {"fee", "due", "law"}}, calls : {{}, {"pay"}},
     tokens : {0, 15}, fits : {TRUE}]
        \cup [status : {"failed"}, output : {{"fee"}}, calls : {{}}, tokens : {0}, fits : BOOLEAN]
===============================================================================
