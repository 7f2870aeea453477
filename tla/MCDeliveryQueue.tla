--------------------------- MODULE MCDeliveryQueue ---------------------------
(* DeliveryQueue for a few prompts of every barrier.                          *)
EXTENDS DeliveryQueue, TLC

CONSTANTS now, tool, response, task, own, revision, t1

\* the prompt "own" comes from the task it would else wait for
MCBarrier ==
  (now :> "immediate_interrupt" @@ tool :> "after_tool" @@ revision :> "after_tool"
   @@ response :> "after_response" @@ task :> "after_task" @@ own :> "after_task")
MCOwnTask == [m \in {now, tool, response, task, own, revision} |-> IF m = own THEN t1 ELSE NoTask]
SmallBarrier == [m \in Messages |-> MCBarrier[m]]
SmallOwnTask == [m \in Messages |-> MCOwnTask[m]]

==============================================================================
