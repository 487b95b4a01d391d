----------------------------- MODULE MCMachine -----------------------------
(***************************************************************************)
(* Two machines in a 3-bit address space: RAM that reaches the top of it,  *)
(* and RAM with the UART right above.  The files pair a code segment with  *)
(* a data segment at every place and of several sizes, empty ones too;     *)
(* others fail one check of the parser each.                               *)
(***************************************************************************)
EXTENDS Machine

MCConfigs == {[ram_base |-> 4, ram_size |-> 4, uart_base |-> 1],
              [ram_base |-> 2, ram_size |-> 4, uart_base |-> 6]}

Header(executable, address, file_size, memory_size, fill) ==
  [loadable |-> TRUE, executable |-> executable,
   virtual_address |-> address, physical_address |-> address,
   file_size |-> file_size, memory_size |-> memory_size,
   payload_fits |-> TRUE, alignment_ok |-> TRUE, fill |-> fill]
File(entry, headers) == [header_ok |-> TRUE, entry |-> entry, headers |-> headers]

Code == {Header(TRUE, a, s[1], s[2], 1) : a \in 2..6, s \in {<<1, 3>>, <<2, 2>>}}
Data == {Header(FALSE, a, s[1], s[2], 2) :
           a \in {2, 4, 5, 6, 7}, s \in {<<0, 0>>, <<0, 1>>, <<1, 2>>}}
Note == [Header(FALSE, 0, 0, 0, 1) EXCEPT !.loadable = FALSE]

Good == Header(TRUE, 4, 1, 2, 1)
Bad == {[Good EXCEPT !.file_size = 3], [Good EXCEPT !.payload_fits = FALSE],
        [Good EXCEPT !.alignment_ok = FALSE],
        [Good EXCEPT !.physical_address = 5],
        [Good EXCEPT !.memory_size = 5]}

MCFiles ==
  {File(e, <<c, d>>) : e \in {4, 7}, c \in Code, d \in Data}
    \cup {File(5, <<d, c>>) : c \in Code, d \in Data}
    \cup {File(4, <<h>>) : h \in Bad \cup {Note}}
    \cup {File(4, <<Note, [Good EXCEPT !.physical_address = 0]>>),
          File(6, <<Good>>),
          [File(4, <<Good>>) EXCEPT !.header_ok = FALSE]}

MCGuestStores == {<<5, 3>>}
MCGuestPcs == {0}
=============================================================================
