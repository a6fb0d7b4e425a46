\* quic_computer_chicago.py with --controller none: no router gets a forwarding table.
CONSTANTS
  CommandLines <- MC_LinesNoController
  BaseTopos <- MC_BaseTopos
  BriteTopos <- MC_BriteTopos
  NoNode = NoNode

SPECIFICATION Spec

INVARIANT TablesServeInvocations
