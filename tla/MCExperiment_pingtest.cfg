\* linear_quic.py and uncoordinated_chicago.py as their parser builds confopts: no 'pingtest' key.
CONSTANTS
  CommandLines <- MC_LinesNoPingtest
  BaseTopos <- MC_BaseTopos
  BriteTopos <- MC_BriteTopos
  NoNode = NoNode

SPECIFICATION Spec

INVARIANT NoException
