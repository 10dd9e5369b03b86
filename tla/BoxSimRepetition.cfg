SPECIFICATION Spec
CONSTANTS
    GenerationMod = 8
    Subscriber = s1
    Iterations = 2
    BoxConfigs <- RepeatingBox1
CHECK_DEADLOCK FALSE
INVARIANTS
    RepetitionsChangeNothing
