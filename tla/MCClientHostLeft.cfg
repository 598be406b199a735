SPECIFICATION Spec
PROPERTY HostLeaveIsTerminal
