---------------------------- MODULE TestCaseData ----------------------------
(***************************************************************************)
(* The input and the answer of a test case (TestCase in dmoj/problem.py):  *)
(* from a file, which stands in the directory of the problem or in its     *)
(* archive, or from a run of the generator, whose standard output is the   *)
(* input and whose standard error is the answer; and the line ends of a    *)
(* file, which are made the same by two pieces of code.                    *)
(***************************************************************************)
EXTENDS Naturals, Sequences, FiniteSets, SequencesExt, FiniteSetsExt

\* No file, no data, no exception.
CONSTANT Nothing

---------------------------------------------------------------------------
\* data.replace(b'\r\n', b'\r'), of each beginning of data.
Replaced(data) ==
    LET upto[n \in 0..Len(data)] ==
            IF n = 0 THEN <<>>
            ELSE IF data[n] = "\n" /\ n > 1 /\ data[n - 1] = "\r" THEN upto[n - 1]
            ELSE Append(upto[n - 1], data[n])
    IN  upto

\* .replace(b'\r', b'\n')
Normalized(data) ==
    LET one == Replaced(data)[Len(data)]
    IN  [i \in DOMAIN one |-> IF one[i] = "\r" THEN "\n" ELSE one[i]]

\* _normalize: what a program reads as an answer.
Normalize(data, binary) ==
    IF binary \/ data = <<>> THEN data
    ELSE IF Last(Normalized(data)) = "\n" THEN Normalized(data)
    ELSE Append(Normalized(data), "\n")

\* What a TextIOWrapper decodes with newline=None, of each beginning of data.
Decodings(data) ==
    LET upto[n \in 0..Len(data)] ==
            IF n = 0 THEN <<>>
            ELSE IF data[n] = "\r" THEN Append(upto[n - 1], "\n")
            ELSE IF data[n] = "\n" /\ n > 1 /\ data[n - 1] = "\r" THEN upto[n - 1]
            ELSE Append(upto[n - 1], data[n])
    IN  upto

Decoded(data) == Decodings(data)[Len(data)]

\* normalized_file_copy, whose test of the last character is made in every block.
NormalizedFileCopy(src, block_size) ==
    LET text == Decoded(src)
        blocks == {k \in 1..Len(text) : (k - 1) * block_size < Len(text)}
        end(k) == Min({k * block_size, Len(text)})
        add_newline == blocks # {} /\ text[end(Max(blocks))] # "\n"
    IN  IF add_newline THEN Append(text, "\n") ELSE text

\* One line end in two files, whoever reads them.
LinesAgree(data, block_sizes) ==
    \A n \in block_sizes :
        LET copy == NormalizedFileCopy(data, n)
        IN  /\ copy = Normalize(data, FALSE)
            /\ Normalize(copy, FALSE) = copy /\ NormalizedFileCopy(copy, n) = copy
            /\ "\r" \notin ToSet(copy) /\ (copy # <<>> => Last(copy) = "\n")

---------------------------------------------------------------------------
(***************************************************************************)
(* A case says which files it has and whether it has a generator; disk has *)
(* the files by name: those of the directory and those of the archive.     *)
(***************************************************************************)
\* ProblemDataManager.open: the directory goes before the archive.
Open(disk, name) ==
    IF name \in DOMAIN disk.dir THEN disk.dir[name]
    ELSE IF disk.archive # Nothing /\ name \in DOMAIN disk.archive THEN disk.archive[name]
    ELSE Nothing

Fresh == [generated |-> Nothing, input |-> Nothing, closed |-> FALSE, runs |-> 0, raised |-> Nothing]

\* Data with the run that wrote it, 0 for a file.
Stored(text) == [run |-> 0, given |-> Nothing, text |-> text]

Raise(tc, what) == [tc EXCEPT !.raised = what]

\* What the generator is given; the file of its input need not exist.
Given(case, disk) == [args |-> case.generator_args,
                      stdin |-> IF case.generator_in = Nothing THEN Nothing ELSE Open(disk, case.generator_in)]

\* _run_generator: what the run wrote is kept before parse_helper_file_error judges how
\* it ended. Two runs need not write the same.
RunGenerator(case, disk, tc, run) ==
    LET wrote(text) == [run |-> tc.runs + 1, given |-> Given(case, disk), text |-> text]
        done == [tc EXCEPT !.runs = @ + 1,
                     !.generated = [stdout |-> wrote(run.stdout),
                                    stderr |-> wrote(Normalize(run.stderr, case.binary))]]
    IN  IF run.well THEN done ELSE Raise(done, "InternalError")

Generated(case, disk, tc, run) ==
    IF tc.generated = Nothing THEN RunGenerator(case, disk, tc, run) ELSE tc

\* An input file beside a generator is a case made in advance.
Ambiguous(case) ==
    /\ case.generator /\ case.in # Nothing
    /\ case.generator_args \/ case.generator_in # Nothing

\* _make_input_data_io
MakeInput(case, disk, tc, run) ==
    LET with(made, data) == [made EXCEPT !.input = data]
    IN  IF Ambiguous(case) THEN Raise(tc, "InvalidInit") ELSE
        CASE case.generator /\ case.in = Nothing ->
                LET made == Generated(case, disk, tc, run)
                IN  IF made.raised = Nothing THEN with(made, made.generated.stdout) ELSE made
          [] case.in # Nothing ->
                IF Open(disk, case.in) = Nothing THEN Raise(tc, "KeyError")
                ELSE with(tc, Stored(IF case.binary THEN Open(disk, case.in)
                                     ELSE NormalizedFileCopy(Open(disk, case.in), 16384)))
          [] OTHER -> with(tc, Stored(<<>>))

\* input_data_io: made once.
InputDataIo(case, disk, tc, run) ==
    IF tc.input # Nothing THEN tc ELSE MakeInput(case, disk, tc, run)

\* output_data: the file of the answer is read each time.
OutputData(case, disk, tc, run) ==
    CASE case.out # Nothing -> IF Open(disk, case.out) = Nothing THEN Raise(tc, "KeyError") ELSE tc
      [] case.out = Nothing /\ case.generator -> Generated(case, disk, tc, run)
      [] OTHER -> tc

Answer(case, disk, tc) ==
    CASE case.out # Nothing -> Stored(Normalize(Open(disk, case.out), case.binary))
      [] case.out = Nothing /\ case.generator -> tc.generated.stderr
      [] OTHER -> Stored(<<>>)

\* The grader does this last, if nothing was raised.
FreeData(tc) == [tc EXCEPT !.generated = Nothing, !.closed = TRUE]

(***************************************************************************)
(* What one grading was told of a case, in whatever order it asked for the *)
(* input and the answer and however often: one input and one answer, of    *)
(* one run of the generator if both are generated, and of none that        *)
(* failed; and files with the same text are told as the same text.         *)
(***************************************************************************)
DataFits(case, disk, tc, told) ==
    LET inputs == {t[2] : t \in {u \in told : u[1] = "input"}}
        answers == {t[2] : t \in {u \in told : u[1] = "answer"}}
        generated == {d \in inputs \cup answers : d.run # 0}
    IN  /\ Cardinality(inputs) <= 1 /\ Cardinality(answers) <= 1
        /\ Cardinality({<<d.run, d.given>> : d \in generated}) <= 1
        /\ tc.raised = "InternalError" => generated = {}
        /\ case.in # Nothing /\ case.out # Nothing =>
              \A i \in inputs, a \in answers :
                  LET in == Open(disk, case.in)
                      out == Open(disk, case.out)
                  IN  IF case.binary THEN i = Stored(in) /\ a = Stored(out)
                      ELSE Decoded(in) = Decoded(out) => i = a
=============================================================================
