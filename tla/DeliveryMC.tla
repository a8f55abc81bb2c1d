----------------------------- MODULE DeliveryMC -----------------------------
(* Two responses to one task, from different workers, the second one a      *)
(* specialist's; a propagated result, which has neither task nor worker,    *)
(* with the content of the first; and one with a trivial content.           *)
EXTENDS Delivery

CONSTANTS t1, w1, w2, c1, c2, c3

Answer(task, worker, content, trivial, specialist) ==
    [task |-> task, worker |-> worker, content |-> content,
     trivial |-> trivial, specialist |-> specialist]

MCAnswers ==
    {Answer(t1, w1, c1, FALSE, FALSE),
     Answer(t1, w2, c2, FALSE, TRUE),
     Answer(NoTask, NoWorker, c1, FALSE, FALSE),
     Answer(t1, NoWorker, c3, TRUE, FALSE)}

\* Two responses without a fault, or one response with one.
MCBudgets == {<<0, 0>>, <<2, 0>>, <<1, 1>>}
=============================================================================
