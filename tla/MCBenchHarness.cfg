SPECIFICATION FairSpec
CONSTANTS
    Repetitions = 2
    Lines = 2
    PipeSize = 2
INVARIANT MeasuresTheCall
PROPERTY Ends
