------------------------------ MODULE MCSerial ------------------------------
EXTENDS Serial

MCSlots == <<"radio", "serial", "idle">>
MCCommands == << <<"data", "data", "data">>, <<"data", "esc">>, <<"data", "data">> >>
=============================================================================
