------------------------- MODULE ConjugateGradient -------------------------
(***************************************************************************)
(* The passes of setup_cg.  A pass that computes the gradient and one that *)
(* computes the curvature in the new direction take turns, unless the loss *)
(* shows that the last step went too far: then the step is taken back and  *)
(* the gradient computed again.                                            *)
(*                                                                         *)
(* No numbers: the weights are the number of times they were changed, and  *)
(* what is accumulated over the features is the sequence of examples it    *)
(* was accumulated from, each with the weights it was computed at.  What   *)
(* the code learns by comparing numbers (the loss grew; the curvature is   *)
(* zero where the slope is not) is an argument.                            *)
(***************************************************************************)
EXTENDS Integers, Sequences

NothingRead == [item |-> 0, prediction |-> <<>>]

\* The locals of setup_cg, and what it keeps per feature: w[1] gradient,
\* w[2] direction, w[3] preconditioner; w[0] is `weights`.
CgStart(weights) ==
  [weights |-> weights, gradient |-> <<>>, direction |-> <<>>, preconditioner |-> <<>>,
   predictions |-> <<>>, example_number |-> 0, gradient_pass |-> TRUE,
   current_pass |-> 0, stepped_back |-> FALSE, read |-> NothingRead]

\* The slip: the derivative is not set to zero.
KeepGradient(c) == c.gradient
\* derivative_magnitude and zero_derivative leave no derivative.
ZeroDerivative(c) == <<>>

\* The slip: the predictions are read on from where the last reading ended.
ReadOn(c) == c.example_number
\* The predictions are read from the first one.
FirstRead(c) == 0

UpdateWeight(c) == [c EXCEPT !.weights = @ + 1]

\* "we stepped to far last time, step back"; the predictions stay.
StepBack(c) ==
  [UpdateWeight(c) EXCEPT !.gradient = ZeroDerivative(c), !.stepped_back = TRUE]

\* The gradient is complete: it gives the direction, and curvature comes next.
\* (After the last pass of a round there is no next one.)
NewDirection(c) ==
  [c EXCEPT !.direction = c.gradient, !.gradient = ZeroDerivative(c),
            !.example_number = FirstRead(c), !.gradient_pass = FALSE]

\* The curvature is complete: it gives the step.
TakeStep(c) ==
  [UpdateWeight(c) EXCEPT !.predictions = <<>>, !.gradient_pass = TRUE,
                          !.stepped_back = FALSE]

\* "your curvature is 0, something wrong.  Try adding regularization"
NoCurvature(flat, regularized) == flat /\ ~regularized

\* The first example of another pass has come.
ChangePass(c, pass, worse) ==
  LET stepped ==
        IF ~c.gradient_pass THEN TakeStep(c)
        ELSE IF c.current_pass > 0 /\ worse THEN StepBack(c)
        ELSE IF pass # 0 THEN NewDirection(c) ELSE c
  IN  IF pass = 0 THEN CgStart(stepped.weights)
      ELSE [stepped EXCEPT !.current_pass = @ + 1]

\* predict_and_gradient and update_preconditioner.
AddGradient(c, item) ==
  LET contribution == <<item, c.weights>>
  IN  [c EXCEPT !.gradient = Append(@, contribution),
                !.predictions = Append(@, contribution),
                !.preconditioner = IF c.current_pass = 0 THEN Append(@, item) ELSE @,
                !.read = NothingRead]

\* dot_with_direction and the second derivative, at an earlier prediction.
AddCurvature(c, item) ==
  LET n == c.example_number + 1
  IN  [c EXCEPT !.example_number = n,
                !.read = [item |-> item,
                          prediction |-> IF n <= Len(c.predictions) THEN c.predictions[n]
                                                                    ELSE <<>>]]

UseExample(c, item) == IF c.gradient_pass THEN AddGradient(c, item)
                                          ELSE AddCurvature(c, item)

\* "do one last update".  The test is also true after a gradient pass that
\* followed a curvature pass, which takes the last step a second time.
DoesLastUpdate(c) == c.example_number = Len(c.predictions)
=============================================================================
