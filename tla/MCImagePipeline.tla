--------------------------- MODULE MCImagePipeline ---------------------------
(* The techniques of ksimg, its agents' plans and plans that go wrong, for *)
(* TLC.                                                                    *)
EXTENDS ImagePipeline, ImageAgents

MCOperations == DOMAIN DefaultRegistry \cup {"upscale"}
MCTechniques == DOMAIN DefaultRegistry
MCInputs     == [t \in MCTechniques |-> DefaultRegistry[t].inputs]
MCOutputOf   == [t \in MCTechniques |-> DefaultRegistry[t].output]

MCLimits ==
  { [denied |-> {}, steps |-> NoLimit], [denied |-> {"txt2img"}, steps |-> 3] }

\* Nothing at all; a technique twice; a value that is replaced before it is
\* used; an unknown, a denied and an unfed one; one step too many.
MCPlans ==
  {PlanFor(intent) : intent \in Interpretations} \cup
  { <<>>,
    <<"txt2txt", "txt2txt">>,
    <<"segmentation", "img2img", "background_removal">>,
    <<"upscale", "img2img">>,
    <<"img2txt", "txt2img">>,
    <<"background_removal">>,
    <<"txt2txt", "txt2txt", "txt2txt", "txt2txt">> }
===============================================================================
