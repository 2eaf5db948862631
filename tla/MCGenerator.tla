---------------------------- MODULE MCGenerator ----------------------------
(* Three parts of the generator that share no state: documents on their way *)
(* to types (MCShapes), the traversal the later passes ask for the cycles   *)
(* between those types (MCCycles), and the names and routes of a document's *)
(* operations (MCOperations), one of them per behaviour.                    *)
EXTENDS MCShapes, MCCycles, MCOperations

ShapesIdle ==
    /\ doc = << >> /\ names = << >> /\ viewed = << >> /\ positions = {} /\ queue = << >>
    /\ shapes = << >> /\ modes = << >> /\ strip = << >> /\ phase = "idle"

CyclesIdle ==
    /\ graph = [nodes |-> 0, edges |-> << >>] /\ root = 0 /\ index = 0
    /\ order = << >> /\ low = << >> /\ component = << >> /\ onStack = << >>
    /\ stack = << >> /\ work = << >> /\ size = << >>

OperationsIdle ==
    /\ description = << >> /\ unvisited = << >> /\ claims = << >> /\ methods = {}
    /\ stems = {} /\ built = << >> /\ unnamed = << >> /\ router = {}
    /\ unasked = << >> /\ setters = << >> /\ stage = "idle"

GeneratorInit ==
    \/ ShapesInit /\ CyclesIdle /\ OperationsIdle
    \/ Init /\ ShapesIdle /\ OperationsIdle
    \/ OperationsInit /\ ShapesIdle /\ CyclesIdle
GeneratorNext ==
    \/ ShapesNext /\ UNCHANGED <<vars, operationVars>>
    \/ Next /\ UNCHANGED <<shapeVars, operationVars>>
    \/ OperationsNext /\ UNCHANGED <<shapeVars, vars>>

\* One thread runs the traversal.
GeneratorSpec ==
    GeneratorInit /\ [][GeneratorNext]_<<shapeVars, vars, operationVars>> /\ WF_vars(Next)

==========================================================================
