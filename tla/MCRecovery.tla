------------------------------ MODULE MCRecovery ------------------------------
EXTENDS Recovery
(* Lines of one- to four-byte characters, each ending with a one-byte LF    *)
(* but the last; `stdout` has a line longer than a page, `output` no text.  *)
MCTexts == [raw    |-> << [chars |-> <<1, 3, 1>>, match |-> TRUE],
                          [chars |-> <<1>>, match |-> FALSE],
                          [chars |-> <<4, 1>>, match |-> TRUE],
                          [chars |-> <<2, 1>>, match |-> TRUE],
                          [chars |-> <<1, 2>>, match |-> TRUE] >>,
            stdout |-> << [chars |-> <<2, 1>>, match |-> TRUE],
                          [chars |-> <<4, 4, 1>>, match |-> TRUE],
                          [chars |-> <<1>>, match |-> TRUE] >>,
            stderr |-> << >>,
            output |-> NoText]
=============================================================================
