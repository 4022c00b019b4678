SPECIFICATION Spec
CONSTANTS
    UART_BUFFER_SIZE = 2
    CONSOLE_BUFFER_SIZE = 2
    NoChar = "0xff"
    Prompt = ">"
    Printable <- OneLetter
    MaxTyped = 2
CHECK_DEADLOCK FALSE
PROPERTY CommandReturns
