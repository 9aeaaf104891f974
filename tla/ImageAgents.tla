------------------------------ MODULE ImageAgents ------------------------------
(***************************************************************************)
(* What examples/ksimg ships with: its techniques, each with the types it  *)
(* takes and the type it gives, and the two agents before the builder that *)
(* are made of rules: the one that reads a user's goal, and the one that   *)
(* plans for it a sequence of operations, of which it knows only the names. *)
(***************************************************************************)
EXTENDS Sequences

DataTypes == {"Text", "Image", "Mask", "ValidatedImage"}

-------------------------------------------------------------------------------
(* Techniques: execute fails on inputs of other types than the contract's  *)

Txt2Txt           == [inputs |-> <<"Text">>, output |-> "Text"]
Txt2Img           == [inputs |-> <<"Text">>, output |-> "Image"]
Img2Txt           == [inputs |-> <<"Image">>, output |-> "Text"]
Img2Img           == [inputs |-> <<"Image">>, output |-> "Image"]
Segmentation      == [inputs |-> <<"Image">>, output |-> "Mask"]
BackgroundRemoval == [inputs |-> <<"Image", "Mask">>, output |-> "Image"]
ValidateImage     == [inputs |-> <<"Image">>, output |-> "ValidatedImage"]

DefaultRegistry ==
  [ txt2txt            |-> Txt2Txt,
    txt2img            |-> Txt2Img,
    img2txt            |-> Img2Txt,
    img2img            |-> Img2Img,
    segmentation       |-> Segmentation,
    background_removal |-> BackgroundRemoval,
    validate           |-> ValidateImage ]

-------------------------------------------------------------------------------
(* The intent agent and the planning agent                                 *)

Intent(input, output, goal) == [input |-> input, output |-> output, goal |-> goal]

\* All that MockIntentAgent reads a user's words as; what it tells goals
\* apart by later is kept of the goal.
Interpretations ==
  { Intent("Image", "Image", "background"),
    Intent("Text", "Image", "generate"),
    Intent("Text", "Text", "prompt"),
    Intent("Image", "Text", "describe"),
    Intent("Image", "Image", "transform"),
    Intent("Text", "Text", "transform") }

PlanFor(intent) ==
  CASE intent.goal = "background" -> <<"segmentation", "background_removal", "validate">>
    [] intent.goal = "prompt"     -> <<"txt2txt">>
    [] OTHER ->
         CASE intent.input = "Text" /\ intent.output = "Image"
                -> <<"txt2txt", "txt2img", "validate">>
           [] intent.input = "Image" /\ intent.output = "Text"
                -> <<"img2txt">>
           [] intent.input = "Image" /\ intent.output = "Image"
                -> <<"img2img", "validate">>
           [] OTHER -> <<"txt2txt">>
===============================================================================
