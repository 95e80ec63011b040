\* Two channels and an evaluator.
CONSTANTS
    c1 = c1  c2 = c2  e1 = e1  page = page
    Channels = {c1, c2}
    Evaluators = {e1}
    Sources <- SomeTexts
    Names = {page}
    Nil = Nil
    MaxRenders = 4
SPECIFICATION RenderSpec
INVARIANTS RenderTypeOK OnlyOthersDisturb
CHECK_DEADLOCK FALSE
